---- MODULE Spec2Model ----
(***************************************************************************)
(* irgo: the virtual HTTP adapter (pkg/adapter), the session hub as it is  *)
(* driven by the loopback transport (pkg/transport/loopback.go) and by the *)
(* mobile bridge (mobile/websocket.go).                                    *)
(*                                                                         *)
(* Two state machines share this module:                                   *)
(*   SpecAdapter  one HTTPAdapter.HandleRequest call, the handler run step *)
(*                by step against the httptest.ResponseRecorder;           *)
(*   Spec         the hub registry, the session mailboxes and the reader,  *)
(*                writer and forwarder tasks around them.                  *)
(* The other specifications restrict or extend these: the handler table   *)
(* (SpecDispatch), reconnects (SpecReconnect), the loopback transport's    *)
(* server, tasks and configuration (SpecTransport, SpecTasks, SpecConfig), *)
(* handlers' channel calls (SpecChannel), the mobile bridge's lifecycle,   *)
(* polls and Shutdown (SpecBridge, SpecPoll, SpecShutdown), the desktop    *)
(* App (SpecApp), the page's VirtualWebSocket (SpecVws) and the livereload *)
(* server (SpecLr).                                                        *)
(* pkg/websocket/hub.go and session.go are not among the sources: the Hub* *)
(* and Session* operators are written from the specification's section 4.3.*)
(***************************************************************************)
EXTENDS Integers, Sequences, FiniteSets, TLC

\* ------------------------------------------------------------- bounds
\* Most listeners one transport opens (Start after Stop).
MaxStarts == 2
\* Most entries the handler table gets.
MaxHandlers == 2
\* Longest handler run: the number of ResponseWriter calls a handler makes.
MaxOps == 3
\* Capacity of a session's mailbox (the buffer of Session.SendChan).
Capacity == 2
\* Longest time, in ms, a blocking poll is followed in its wait.
MaxWait == 2

\* ---------------------------------------------------------- variables
VARIABLES
    apc,        \* HandleRequest: "idle" | "handler" | "done"
    calls,      \* how often a.handler.ServeHTTP was entered for this request
    hlog,       \* what the handler did, in order (its calls, a final panic)
    rec,        \* the httptest.ResponseRecorder
    outcome,    \* "none" | "returned" | "panic" (the panic reached the caller)
    resp        \* the core.Response HandleRequest returned

avars == <<apc, calls, hlog, rec, outcome, resp>>

VARIABLES
    mode,       \* what drives the hub: "loopback" | "mobile"
    sess,       \* the session objects ever created, by slot
    hubClosed,  \* Hub.Close has run
    wsCallback, \* a native WebSocketCallback is registered (mobile)
    chs,        \* a handler's call on its sessionChannelAdapter, in flight
    ev          \* the last call and what it returned

hvars == <<mode, sess, hubClosed, wsCallback, chs, ev>>
hvars_but_ev == <<mode, sess, hubClosed, wsCallback, chs>>

VARIABLES
    table,      \* the hub's handler table: (pattern, handler) in Handle order
    dflt        \* the hub's default handler, 0 when none is set

dvars == <<table, dflt>>

VARIABLES
    bridge      \* mobile: globalBridge (is there one, and its adapter's handler)

VARIABLES
    poll,       \* mobile: a WebSocketPollBlocking call, and the time it has waited
    app,        \* desktop App: config.Transport, IRGO_TRANSPORT, a.transport
    sd,         \* mobile: the position of a Shutdown call that holds bridgeMu
    vws,        \* irgo-bridge.js: the VirtualWebSocket objects of the page
    lr          \* livereload Server: clients, their channels, NotifyReload calls

xvars == <<poll, app, sd, vws, lr>>
xvars_but_poll == <<app, sd, vws, lr>>
xvars_but_app == <<poll, sd, vws, lr>>
xvars_but_sd == <<poll, app, vws, lr>>
xvars_but_vws == <<poll, app, sd, lr>>
xvars_but_lr == <<poll, app, sd, vws>>

VARIABLES
    running,    \* LoopbackTransport.running
    server,     \* LoopbackTransport.server: none, the one serving, or a fresh one
    listener,   \* the server's listener: "none" | "open" | "closed"
    starts,     \* how many listeners Start has opened
    closes,     \* how many times server.Shutdown has closed a listener
    stp,        \* each caller's position in Stop
    inflight,   \* requests the server accepted and has not yet answered
    allowed,    \* config.AllowedOrigins
    cfg         \* config: Address, Port, Secret; generateSecret calls so far

tvars_but_stp ==
    <<running, server, listener, starts, closes, inflight, allowed, cfg>>

tvars ==
    <<running, server, listener, starts, closes, stp, inflight, allowed, cfg>>

vars == <<apc, calls, hlog, rec, outcome, resp,
          mode, sess, hubClosed, wsCallback, chs, ev, table, dflt,
          running, server, listener, starts, closes, stp, inflight, allowed,
          cfg, bridge, poll, app, sd, vws, lr>>

\* ============================================================ adapter
HeaderKeys == {"Content-Type", "HX-Trigger"}
HeaderVals == {"v1", "v2"}
Chunks == {"a", "b"}
StatusCodes == {201, 404}

\* The content type http.DetectContentType gives a body (one abstract value).
Sniffed == "sniffed"

NoHeaders == [k \in HeaderKeys |-> <<>>]
NoResponse == [status |-> 0, headers |-> <<>>, body |-> <<>>]

\* httptest.NewRecorder(): Code 200, empty header map, empty body.
NewRecorder == [wrote |-> FALSE, code |-> 200, hdr |-> NoHeaders,
                snap |-> NoHeaders, body |-> <<>>]

\* What a handler can do with its ResponseWriter.
HandlerOps ==
    [k : {"set", "add"}, h : HeaderKeys, v : HeaderVals]
    \cup [k : {"status"}, c : StatusCodes]
    \cup [k : {"write"}, b : Chunks]

\* The handler's panic, as the last entry of its log.
PanicOp == [k |-> "panic"]

\* ResponseRecorder.WriteHeader: the first call fixes the code and snapshots
\* the header map, later calls are ignored.
RecWriteHeader(r, code) ==
    IF r.wrote THEN r
    ELSE [r EXCEPT !.wrote = TRUE, !.code = code, !.snap = r.hdr]

\* ResponseRecorder.Write: an implicit WriteHeader(200), with a detected
\* Content-Type when the handler has set none, then the bytes are appended.
RecWrite(r, b) ==
    LET typed == IF ~r.wrote /\ r.hdr["Content-Type"] = <<>>
                 THEN [r EXCEPT !.hdr["Content-Type"] = <<Sniffed>>]
                 ELSE r
        committed == RecWriteHeader(typed, 200)
    IN  [committed EXCEPT !.body = Append(committed.body, b)]

\* w.Header().Set / Add act on the live map; the snapshot is not touched.
RecApply(r, op) ==
    CASE op.k = "set" -> [r EXCEPT !.hdr[op.h] = <<op.v>>]
      [] op.k = "add" -> [r EXCEPT !.hdr[op.h] = Append(r.hdr[op.h], op.v)]
      [] op.k = "status" -> RecWriteHeader(r, op.c)
      [] op.k = "write" -> RecWrite(r, op.b)

\* recorder.Result(): the snapshot taken at WriteHeader, or the live map when
\* the handler never wrote.
RecResultHeader(r) == IF r.wrote THEN r.snap ELSE r.hdr

\* "Flatten response headers": the first value of every key that has one.
FlattenHeaders(h) ==
    [k \in {x \in HeaderKeys : Len(h[x]) > 0} |-> h[k][1]]

\* The core.Response built from the recorder.
ResponseOf(r) ==
    [status |-> r.code, headers |-> FlattenHeaders(RecResultHeader(r)),
     body |-> r.body]

AInit ==
    /\ apc = "idle"
    /\ calls = 0
    /\ hlog = <<>>
    /\ rec = NewRecorder
    /\ outcome = "none"
    /\ resp = NoResponse

\* HandleRequest up to the call of the handler.  httptest.NewRequest panics
\* on a method and URL that do not parse as a request line; nothing in
\* HandleRequest recovers, so the panic reaches the caller.
HandleRequestBegin(valid) ==
    /\ apc = "idle"
    /\ IF valid
       THEN /\ apc' = "handler"
            /\ calls' = calls + 1
            /\ UNCHANGED outcome
       ELSE /\ apc' = "done"
            /\ outcome' = "panic"
            /\ UNCHANGED calls
    /\ rec' = NewRecorder
    /\ UNCHANGED <<hlog, resp>>
    /\ UNCHANGED <<hvars, dvars, tvars, bridge, xvars>>

\* The handler makes one ResponseWriter call.
HandlerStep(op) ==
    /\ apc = "handler"
    /\ Len(hlog) < MaxOps
    /\ rec' = RecApply(rec, op)
    /\ hlog' = Append(hlog, op)
    /\ UNCHANGED <<apc, calls, outcome, resp>>
    /\ UNCHANGED <<hvars, dvars, tvars, bridge, xvars>>

\* The handler panics: ServeHTTP unwinds through HandleRequest, which has no
\* recover, and no Response is built.
HandlerPanic ==
    /\ apc = "handler"
    /\ apc' = "done"
    /\ outcome' = "panic"
    /\ hlog' = Append(hlog, PanicOp)
    /\ UNCHANGED <<calls, rec, resp>>
    /\ UNCHANGED <<hvars, dvars, tvars, bridge, xvars>>

\* The handler returns: the recorder is flattened into the Response.
HandlerReturn ==
    /\ apc = "handler"
    /\ apc' = "done"
    /\ outcome' = "returned"
    /\ resp' = ResponseOf(rec)
    /\ UNCHANGED <<calls, hlog, rec>>
    /\ UNCHANGED <<hvars, dvars, tvars, bridge, xvars>>

AdapterNext ==
    \/ \E valid \in BOOLEAN : HandleRequestBegin(valid)
    \/ \E op \in HandlerOps : HandlerStep(op)
    \/ HandlerPanic
    \/ HandlerReturn

\* ================================================================ hub
\* The session objects of one run: slots are filled in order and never
\* reused, so a slot stands for the *Session a task or a handler holds.
Slots == {1, 2}
\* Session ids, as Connect allocates them.
IDs == {1, 2}
Paths == {"/chat", "/other"}
\* Envelopes, told apart by who made them: a handler's reply to a message,
\* a point-to-point send, a broadcast.
Envelopes == {"reply", "send", "bcast"}
\* A hub serves the loopback transport (desktop.New gives it its own hub)
\* or the mobile bridge (mobile.Initialize).
Modes == {"loopback", "mobile"}

\* A slot no session was created in.
Free == [kind |-> "none", id |-> 0, url |-> "", reg |-> FALSE,
         closed |-> FALSE, q |-> <<>>,
         conn |-> "none", w |-> "none", r |-> "none", cb |-> FALSE,
         d |-> "none"]

NoEv == [op |-> "none", i |-> 0, res |-> "none"]
Idle == [pc |-> "idle", i |-> 0]

\* The handlers an application registers, by number; 0 stands for none.
Handlers == {1, 2}
\* Patterns: a path, or "/", the prefix of every path.
Patterns == Paths \cup {"/"}
\* The handler table of the running application: one handler, registered
\* for "/chat"; no default.
ChatTable == <<[p |-> "/chat", h |-> 1]>>

\* No globalBridge; the bridge as Initialize makes it (a hub, no adapter).
NoBridge == [up |-> FALSE, adapter |-> 0]
NewBridge == [up |-> TRUE, adapter |-> 0]

\* No WebSocketPollBlocking call is in progress.
NoPoll == [pc |-> "idle", i |-> 0, timeout |-> 0, elapsed |-> 0]

\* The desktop App of DefaultConfig() with IRGO_TRANSPORT unset, before Run.
DefaultApp == [config |-> "loopback", env |-> "", transport |-> "none"]

\* No Shutdown call is in progress: bridgeMu is free.
NoShutdown == [pc |-> "idle", i |-> 0]

\* The pages' sockets and the livereload clients, by number.
Sockets == {1, 2}
Clients == {1, 2}
\* The NotifyReload calls that can be in progress at once.
Notifiers == {1, 2}

\* No VirtualWebSocket has been constructed on a page of a mobile app
\* (isNative).
NoSocket == [nat |-> TRUE, rs |-> "NONE", conn |-> "none", reg |-> FALSE,
             b |-> "none", closeEv |-> FALSE]

\* livereload.New(): no client; no NotifyReload in progress.
NewServer ==
    [clients |-> {},
     ch |-> [c \in Clients |-> [st |-> "none", buf |-> 0, closed |-> FALSE]],
     n |-> [k \in Notifiers |-> [pc |-> "idle", todo |-> {}]]]

XInit ==
    /\ poll = NoPoll
    /\ app = DefaultApp
    /\ sd = NoShutdown
    /\ vws = [k \in Sockets |-> NoSocket]
    /\ lr = NewServer

HInit ==
    /\ bridge = NewBridge
    /\ table = ChatTable
    /\ dflt = 0
    /\ mode \in Modes
    /\ sess = [i \in Slots |-> Free]
    /\ hubClosed = FALSE
    /\ wsCallback = FALSE
    /\ chs = Idle
    /\ ev = NoEv

\* ------------------------------------------- the hub (specification 4.3)
Live(i) == sess[i].kind # "none"

\* The registry: Hub.GetSession by id.
Registered(S, id) == \E i \in Slots : S[i].reg /\ S[i].id = id
Lookup(S, id) == CHOOSE i \in Slots : S[i].reg /\ S[i].id = id

\* A pattern of the handler table matches a path it is, or is a prefix of.
PatternMatches(pattern, url) == pattern = url \/ pattern = "/"

\* A lookup that takes the last matching pattern of the table.
RECURSIVE ResolveLast(_, _, _)
ResolveLast(T, d, url) ==
    IF T = <<>> THEN d
    ELSE IF PatternMatches(T[Len(T)].p, url) THEN T[Len(T)].h
    ELSE ResolveLast(SubSeq(T, 1, Len(T) - 1), d, url)

\* The handler of a path: that of the first pattern, in registration order,
\* that matches; the default handler when none matches; 0 with neither.
RECURSIVE Resolve(_, _, _)
Resolve(T, d, url) ==
    IF T = <<>> THEN d
    ELSE IF PatternMatches(T[1].p, url) THEN T[1].h
    ELSE Resolve(Tail(T), d, url)

\* A handler is resolvable for the path.
HasHandler(url) == Resolve(table, dflt, url) # 0

\* BroadcastToURL's pattern test.
Matches(pattern, url) == pattern = url

\* The slot of the next session object, and the id Connect allocates: one no
\* session ever had.
FreeSlots == {i \in Slots : sess[i].kind = "none"}
NextSlot == CHOOSE i \in FreeSlots : \A j \in FreeSlots : i <= j
UsedIDs == {sess[i].id : i \in Slots \ FreeSlots}
FreshID == CHOOSE id \in IDs \ UsedIDs : \A j \in IDs \ UsedIDs : id <= j

\* Hub.Connect / ConnectWithID: the error, if any.  The handler resolved for
\* the path may reject the session in its connect callback; the session is
\* registered only after it was accepted.
ConnectError(id, url, accept) ==
    IF hubClosed THEN "HubClosed"
    ELSE IF Registered(sess, id) THEN "DuplicateSession"
    ELSE IF HasHandler(url) /\ ~accept THEN "rejected"
    ELSE "nil"

\* The session Connect registers: open, empty mailbox.
NewSession(id, url) ==
    [Free EXCEPT !.id = id, !.url = url, !.reg = TRUE]

\* A Session.Send that does not look at the closed flag.
SessionSendOKIgnoringClose(s) == Len(s.q) < Capacity

\* Session.Send: a non-blocking enqueue; FALSE when the mailbox is closed or
\* full.
SessionSendOK(s) == ~s.closed /\ Len(s.q) < Capacity
SessionSend(s, e) ==
    IF SessionSendOK(s) THEN [s EXCEPT !.q = Append(s.q, e)] ELSE s

\* Session.Close: closes the mailbox; a second close does nothing.  The
\* session keeps no reference to the hub: the registry is not touched.
SessionClose(s) == [s EXCEPT !.closed = TRUE]

\* A Disconnect that closes the mailbox and leaves the registry entry.
HubDisconnectKeepsRegistered(S, id) ==
    IF Registered(S, id)
    THEN [S EXCEPT ![Lookup(S, id)] = SessionClose(S[Lookup(S, id)])]
    ELSE S

\* Hub.Disconnect: removes the session from the registry and closes its
\* mailbox; an unknown id is a no-op.
HubDisconnect(S, id) ==
    IF Registered(S, id)
    THEN [S EXCEPT ![Lookup(S, id)] =
              [SessionClose(S[Lookup(S, id)]) EXCEPT !.reg = FALSE]]
    ELSE S

\* Hub.Send: the error it returns.
HubSendError(id) ==
    IF hubClosed THEN "HubClosed"
    ELSE IF ~Registered(sess, id) THEN "UnknownSession"
    ELSE IF ~SessionSendOK(sess[Lookup(sess, id)]) THEN "ChannelFull"
    ELSE "nil"

\* Hub.Broadcast / BroadcastToURL: a non-blocking Session.Send to every
\* registered session among the targets; a failed send is skipped.
HubBroadcast(S, targets, e) ==
    [i \in Slots |-> IF i \in targets /\ S[i].reg
                     THEN SessionSend(S[i], e) ELSE S[i]]

\* A HandleMessage that looks the session up before it parses the message.
HandleMessageResultLookupFirst(id, valid, reply) ==
    IF hubClosed THEN "HubClosed"
    ELSE IF ~Registered(sess, id) THEN "UnknownSession"
    ELSE IF ~valid THEN "MalformedMessage"
    ELSE IF ~HasHandler(sess[Lookup(sess, id)].url) THEN "NoHandler"
    ELSE reply

\* Hub.HandleMessage: the error, or what the handler's message callback gave.
HandleMessageResult(id, valid, reply) ==
    IF hubClosed THEN "HubClosed"
    ELSE IF ~valid THEN "MalformedMessage"
    ELSE IF ~Registered(sess, id) THEN "UnknownSession"
    ELSE IF ~HasHandler(sess[Lookup(sess, id)].url) THEN "NoHandler"
    ELSE reply

\* Hub.HandleMessage: the handler whose message callback it invokes, 0 when
\* it fails before the dispatch.
HandleMessageInvokes(id, valid) ==
    IF hubClosed \/ ~valid \/ ~Registered(sess, id) THEN 0
    ELSE Resolve(table, dflt, sess[Lookup(sess, id)].url)

\* Hub.Close: disconnects every session; on a closed hub none is left.
HubCloseAll(S) ==
    [i \in Slots |-> IF S[i].reg
                     THEN [SessionClose(S[i]) EXCEPT !.reg = FALSE]
                     ELSE S[i]]

\* ------------------------------------------------ loopback transport
\* An upgrade handler that starts the tasks whatever Connect returned.
UpgradeStartsAlways(err) == TRUE

\* wrapWithWebSocketHandler goes on to start the tasks only when Connect
\* returned no error; otherwise it closes the upgraded connection.
UpgradeStarts(err) == err = "nil"
RejectedConn == "closed"

\* The session of an upgrade with its connection and its two tasks.
UpgradedSession(id, url, err) ==
    [NewSession(id, url) EXCEPT !.kind = "loopback", !.reg = (err = "nil"),
                                !.conn = "open", !.w = "run", !.r = "run"]

\* An upgrade request on `url` reaches wrapWithWebSocketHandler.
Upgrade(url, accept) ==
    /\ mode = "loopback"
    /\ FreeSlots # {}
    /\ LET err == ConnectError(FreshID, url, accept)
       IN  IF UpgradeStarts(err)
           THEN /\ sess' = [sess EXCEPT
                              ![NextSlot] = UpgradedSession(FreshID, url, err)]
                /\ ev' = [op |-> "Upgrade", i |-> NextSlot, res |-> err]
           ELSE /\ sess' = sess
                /\ ev' = [op |-> "Upgrade", i |-> 0, res |-> RejectedConn]
    /\ UNCHANGED <<avars, xvars, bridge, dvars, tvars, mode, hubClosed, wsCallback, chs>>

\* A receive that takes the newest envelope.
ReceiveNewest(q) == q[Len(q)]

\* `for envelope := range session.SendChan`: a receive takes the oldest
\* envelope of the mailbox.
Receive(q) == Head(q)

\* wsWriter, one turn of its loop: it takes an envelope and writes it to the
\* connection (Envelope.JSON cannot fail: the envelope holds strings only);
\* a write error, or the closed and drained mailbox, ends the task, which
\* closes the connection.
wsWriter(i) ==
    /\ sess[i].kind = "loopback"
    /\ sess[i].w = "run"
    /\ \/ /\ sess[i].q # <<>>
          /\ sess[i].conn = "open"
          /\ sess' = [sess EXCEPT ![i].q = Tail(sess[i].q)]
          /\ ev' = [op |-> "deliver", i |-> i, res |-> Receive(sess[i].q)]
       \/ /\ sess[i].q # <<>>
          /\ sess[i].conn = "closed"
          /\ sess' = [sess EXCEPT ![i].q = Tail(sess[i].q), ![i].w = "done"]
          /\ ev' = NoEv
       \/ /\ sess[i].q = <<>>
          /\ sess[i].closed
          /\ sess' = [sess EXCEPT ![i].w = "done", ![i].conn = "closed"]
          /\ ev' = NoEv
    /\ UNCHANGED <<avars, xvars, bridge, dvars, tvars, mode, hubClosed, wsCallback, chs>>

\* wsReader: `if err != nil { continue }`, `if envelope != nil`.
ReaderForwards(result) == result = "envelope"

\* wsReader, one frame: HandleMessage, and a reply envelope is sent to the
\* session the reader holds.
wsReaderMessage(i, valid, reply) ==
    /\ sess[i].kind = "loopback"
    /\ sess[i].r = "run"
    /\ sess[i].conn = "open"
    /\ sess' = IF ReaderForwards(HandleMessageResult(sess[i].id, valid, reply))
               THEN [sess EXCEPT ![i] = SessionSend(sess[i], "reply")]
               ELSE sess
    /\ ev' = [op |-> "HandleMessage", i |-> sess[i].id,
              res |-> HandleMessageResult(sess[i].id, valid, reply),
              valid |-> valid, h |-> HandleMessageInvokes(sess[i].id, valid)]
    /\ UNCHANGED <<avars, xvars, bridge, dvars, tvars, mode, hubClosed, wsCallback, chs>>

\* wsReader, the read error: the deferred Disconnect and conn.Close().
wsReaderExit(i) ==
    /\ sess[i].kind = "loopback"
    /\ sess[i].r = "run"
    /\ sess[i].conn = "closed"
    /\ sess' = [HubDisconnect(sess, sess[i].id) EXCEPT ![i].r = "done"]
    /\ ev' = [op |-> "wsReaderExit", i |-> i, res |-> "nil"]
    /\ UNCHANGED <<avars, xvars, bridge, dvars, tvars, mode, hubClosed, wsCallback, chs>>

\* The peer closes the connection, or the network fails.
ClientClose(i) ==
    /\ sess[i].kind = "loopback"
    /\ sess[i].conn = "open"
    /\ sess' = [sess EXCEPT ![i].conn = "closed"]
    /\ ev' = NoEv
    /\ UNCHANGED <<avars, xvars, bridge, dvars, tvars, mode, hubClosed, wsCallback, chs>>

\* ---------------------------------------------------- mobile bridge
\* The session of WebSocketConnect with its forwarder task, which reads the
\* registered callback once, when it starts.
ForwardedSession(id, url, err) ==
    [NewSession(id, url) EXCEPT !.kind = "mobile", !.reg = (err = "nil"),
                                !.w = "run", !.cb = wsCallback]

\* A WebSocketConnect that starts the forwarder whatever Connect returned.
ConnectStartsAlways(err) == TRUE

\* WebSocketConnect starts the forwarder only when Connect returned no error.
ConnectStarts(err) == err = "nil"

\* A WebSocketConnectWithID that starts the forwarder whatever ConnectWithID
\* returned.
ReconnectStartsAlways(err) == TRUE

\* WebSocketConnectWithID starts the forwarder only when ConnectWithID
\* returned no error.
ReconnectStarts(err) == err = "nil"

\* An entry point that goes on whether GetHub gave it a hub or not.
GetHubIsNilNever == FALSE

\* GetHub() returns nil: there is no globalBridge.
GetHubIsNil == mode = "mobile" /\ ~bridge.up

\* `if hub == nil`: the entry point returns at once, with
\* errors.New("bridge not initialized") where it returns an error.
NotInitialized(op, id, res) ==
    /\ ev' = [op |-> op, i |-> id, res |-> res]
    /\ UNCHANGED <<avars, xvars, bridge, dvars, tvars, hvars_but_ev>>

\* WebSocketConnectWithID: the caller gives the id.
WebSocketConnectWithID(id, url, accept) ==
    /\ mode = "mobile"
    /\ IF GetHubIsNil
       THEN NotInitialized("WebSocketConnectWithID", id,
                           "bridge not initialized")
       ELSE /\ FreeSlots # {}
            /\ LET err == ConnectError(id, url, accept)
               IN  /\ sess' = IF ReconnectStarts(err)
                              THEN [sess EXCEPT ![NextSlot] =
                                       ForwardedSession(id, url, err)]
                              ELSE sess
                   /\ ev' = [op |-> "WebSocketConnectWithID", i |-> id,
                             res |-> err]
            /\ UNCHANGED <<avars, xvars, bridge, dvars, tvars, mode, hubClosed,
                           wsCallback, chs>>

WebSocketConnect(url, accept) ==
    /\ mode = "mobile"
    /\ IF GetHubIsNil
       THEN NotInitialized("WebSocketConnect", 0, "bridge not initialized")
       ELSE /\ FreeSlots # {}
            /\ LET err == ConnectError(FreshID, url, accept)
               IN  /\ sess' = IF ConnectStarts(err)
                              THEN [sess EXCEPT ![NextSlot] =
                                       ForwardedSession(FreshID, url, err)]
                              ELSE sess
                   /\ ev' = [op |-> "WebSocketConnect",
                             i |-> IF ConnectStarts(err) THEN NextSlot ELSE 0,
                             res |-> err]
            /\ UNCHANGED <<avars, xvars, bridge, dvars, tvars, mode, hubClosed,
                           wsCallback, chs>>

\* WebSocketSend: HandleMessage; the reply goes back to the caller as JSON.
WebSocketSend(id, valid, reply) ==
    /\ mode = "mobile"
    /\ IF GetHubIsNil
       THEN NotInitialized("WebSocketSend", id, "bridge not initialized")
       ELSE /\ ev' = [op |-> "HandleMessage", i |-> id,
                      res |-> HandleMessageResult(id, valid, reply),
                      valid |-> valid, h |-> HandleMessageInvokes(id, valid)]
            /\ UNCHANGED <<avars, xvars, bridge, dvars, tvars, mode, sess,
                           hubClosed, wsCallback, chs>>

\* A WebSocketClose that reports an id the hub does not know.
WebSocketCloseErrorStrict(known) == IF known THEN "nil" ELSE "UnknownSession"

\* WebSocketClose: Disconnect, then the poll channel of the id is closed and
\* deleted (nothing ever adds one to pollChannels); it returns nil.  It stands
\* for every caller of Hub.Disconnect outside the reader task, whatever
\* drives the hub.
WebSocketCloseError(known) == "nil"

WebSocketClose(id) ==
    IF GetHubIsNil
    THEN NotInitialized("WebSocketClose", id, "bridge not initialized")
    ELSE /\ sess' = HubDisconnect(sess, id)
         /\ ev' = [op |-> "WebSocketClose", i |-> id,
                   res |-> WebSocketCloseError(Registered(sess, id))]
         /\ UNCHANGED <<avars, xvars, bridge, dvars, tvars, mode, hubClosed,
                        wsCallback, chs>>

\* A forwarder that leaves its loop as soon as the mailbox is empty.
ForwarderEndsWhenEmpty(s) == s.q = <<>>

\* `for envelope := range session.SendChan` ends on the closed and drained
\* mailbox.
ForwarderEnds(s) == s.q = <<>> /\ s.closed

\* forwardSessionMessages, one turn of its loop: the envelope goes to the
\* OnMessage of the callback it read at its start; without one it is
\* dropped (no poll channel exists).  The closed and drained mailbox ends
\* the loop, and the callback, when there is one, gets OnClose.
forwardSessionMessages(i) ==
    /\ sess[i].kind = "mobile"
    /\ sess[i].w = "run"
    /\ \/ /\ sess[i].q # <<>>
          /\ sess' = [sess EXCEPT ![i].q = Tail(sess[i].q)]
          /\ ev' = IF sess[i].cb
                   THEN [op |-> "deliver", i |-> i, res |-> Receive(sess[i].q)]
                   ELSE NoEv
       \/ /\ ForwarderEnds(sess[i])
          /\ sess' = [sess EXCEPT ![i].w = "done"]
          /\ ev' = IF sess[i].cb
                   THEN [op |-> "OnClose", i |-> i, res |-> "Session closed"]
                   ELSE NoEv
    /\ UNCHANGED <<avars, xvars, bridge, dvars, tvars, mode, hubClosed, wsCallback, chs>>

\* WebSocketPoll: a non-blocking receive on the mailbox of a registered id;
\* the envelope received is returned to the caller as JSON.
WebSocketPoll(id) ==
    /\ mode = "mobile"
    /\ IF ~GetHubIsNil /\ Registered(sess, id)
          /\ sess[Lookup(sess, id)].q # <<>>
       THEN /\ sess' = [sess EXCEPT ![Lookup(sess, id)].q = Tail(@)]
            /\ ev' = [op |-> "poll", i |-> Lookup(sess, id),
                      res |-> Receive(sess[Lookup(sess, id)].q)]
       ELSE /\ sess' = sess
            /\ ev' = NoEv
    /\ UNCHANGED <<avars, xvars, bridge, dvars, tvars, mode, hubClosed, wsCallback, chs>>

\* The timeoutMs a caller of WebSocketPollBlocking passes.
Timeouts == {0, 1}

\* WebSocketPollBlocking up to its receive: without a hub or a session of
\* the id it returns "", with timeoutMs <= 0 it is WebSocketPoll; otherwise
\* it goes on to `envelope, ok := <-session.SendChan`.  timeoutMs is read
\* nowhere else.
WebSocketPollBlocking(id, timeoutMs) ==
    /\ mode = "mobile"
    /\ poll.pc = "idle"
    /\ IF ~GetHubIsNil /\ Registered(sess, id) /\ timeoutMs > 0
       THEN /\ poll' = [pc |-> "blocked", i |-> Lookup(sess, id),
                        timeout |-> timeoutMs, elapsed |-> 0]
            /\ ev' = NoEv
            /\ UNCHANGED <<avars, xvars_but_poll, bridge, dvars, tvars, hvars_but_ev>>
       ELSE WebSocketPoll(id)

\* The receive of WebSocketPollBlocking: it takes the envelope at the head
\* of the mailbox, or returns "" on the closed and drained mailbox; on an
\* empty open mailbox it waits.
PollBlockingReceive ==
    /\ poll.pc = "blocked"
    /\ \/ /\ sess[poll.i].q # <<>>
          /\ sess' = [sess EXCEPT ![poll.i].q = Tail(@)]
          /\ ev' = [op |-> "poll", i |-> poll.i,
                    res |-> Receive(sess[poll.i].q)]
       \/ /\ sess[poll.i].q = <<>>
          /\ sess[poll.i].closed
          /\ sess' = sess
          /\ ev' = [op |-> "pollBlocking", i |-> poll.i, res |-> ""]
    /\ poll' = NoPoll
    /\ UNCHANGED <<avars, xvars_but_poll, bridge, dvars, tvars, mode, hubClosed, wsCallback,
                   chs>>

\* A millisecond passes while the call waits in its receive; the call has
\* no timer, so nothing of it happens when timeoutMs have passed.
Tick ==
    /\ poll.pc = "blocked"
    /\ poll.elapsed < MaxWait
    /\ poll' = [poll EXCEPT !.elapsed = @ + 1]
    /\ ev' = NoEv
    /\ UNCHANGED <<avars, xvars_but_poll, bridge, dvars, tvars, hvars_but_ev>>

\* A WebSocketBroadcast that calls Broadcast in place of BroadcastToURL.
BroadcastTargetsAll(pattern) == Slots

\* The sessions WebSocketBroadcast(urlPattern, ...) hands to BroadcastToURL,
\* and those of WebSocketBroadcastAll (Hub.Broadcast).
BroadcastTargets(pattern) == {i \in Slots : Matches(pattern, sess[i].url)}
BroadcastAllTargets == Slots

WebSocketBroadcast(pattern) ==
    /\ mode = "mobile"
    /\ ~GetHubIsNil
    /\ sess' = HubBroadcast(sess, BroadcastTargets(pattern), "bcast")
    /\ ev' = [op |-> "Broadcast", i |-> 0, res |-> pattern]
    /\ UNCHANGED <<avars, xvars, bridge, dvars, tvars, mode, hubClosed, wsCallback, chs>>

WebSocketBroadcastAll ==
    /\ mode = "mobile"
    /\ ~GetHubIsNil
    /\ sess' = HubBroadcast(sess, BroadcastAllTargets, "bcast")
    /\ ev' = [op |-> "Broadcast", i |-> 0, res |-> "*"]
    /\ UNCHANGED <<avars, xvars, bridge, dvars, tvars, mode, hubClosed, wsCallback, chs>>

\* WebSocketSendToSession: returns what Hub.Send returns.
WebSocketSendToSession(id) ==
    /\ mode = "mobile"
    /\ IF GetHubIsNil
       THEN NotInitialized("WebSocketSendToSession", id,
                           "bridge not initialized")
       ELSE /\ sess' = IF HubSendError(id) = "nil"
                       THEN [sess EXCEPT ![Lookup(sess, id)] =
                                SessionSend(@, "send")]
                       ELSE sess
            /\ ev' = [op |-> "SendToSession", i |-> id,
                      res |-> HubSendError(id)]
            /\ UNCHANGED <<avars, xvars, bridge, dvars, tvars, mode, hubClosed,
                           wsCallback, chs>>

SetWebSocketCallback(cb) ==
    /\ mode = "mobile"
    /\ wsCallback' = cb
    /\ ev' = NoEv
    /\ UNCHANGED <<avars, xvars, bridge, dvars, tvars, mode, sess, hubClosed, chs>>

\* --------------------------------------- sessionChannelAdapter (handlers)
\* A Send that drops the result of Session.Send.
ChannelSendErrorNil(ok) == "nil"

\* Send: `if a.session.IsClosed()`, then `if !a.session.Send(...)`.
ChannelSendError(ok) == IF ok THEN "nil" ELSE "ErrChannelFull"

\* Send, its first statement: the IsClosed test.
ChannelSendCheck(i) ==
    /\ mode = "loopback"
    /\ chs.pc = "idle"
    /\ Live(i)
    /\ HasHandler(sess[i].url)
    /\ IF sess[i].closed
       THEN /\ chs' = Idle
            /\ ev' = [op |-> "ChannelSend", i |-> i, res |-> "ErrChannelClosed"]
       ELSE /\ chs' = [pc |-> "checked", i |-> i]
            /\ ev' = NoEv
    /\ UNCHANGED <<avars, xvars, bridge, dvars, tvars, mode, sess, hubClosed, wsCallback>>

\* Send, its second statement: Session.Send and the error made of its result.
ChannelSendEnqueue ==
    /\ chs.pc = "checked"
    /\ sess' = [sess EXCEPT ![chs.i] = SessionSend(@, "send")]
    /\ ev' = [op |-> "ChannelSend", i |-> chs.i,
              res |-> ChannelSendError(SessionSendOK(sess[chs.i]))]
    /\ chs' = Idle
    /\ UNCHANGED <<avars, xvars, bridge, dvars, tvars, mode, hubClosed, wsCallback>>

\* Close: a.session.Close().
ChannelClose(i) ==
    /\ mode = "loopback"
    /\ Live(i)
    /\ HasHandler(sess[i].url)
    /\ sess' = [sess EXCEPT ![i] = SessionClose(@)]
    /\ ev' = [op |-> "ChannelClose", i |-> i, res |-> "nil"]
    /\ UNCHANGED <<avars, xvars, bridge, dvars, tvars, mode, hubClosed, wsCallback, chs>>

\* Done: it makes a channel and starts a task that will close it, and
\* returns the channel.
ChannelDone(i) ==
    /\ mode = "loopback"
    /\ Live(i)
    /\ HasHandler(sess[i].url)
    /\ sess[i].d = "none"
    /\ sess' = [sess EXCEPT ![i].d = "run"]
    /\ ev' = [op |-> "ChannelDone", i |-> i, res |-> "open"]
    /\ UNCHANGED <<avars, xvars, bridge, dvars, tvars, mode, hubClosed,
                   wsCallback, chs>>

\* The task Done started, one turn of `for range a.session.SendChan`: it
\* receives an envelope and discards it; on the closed and drained mailbox
\* it leaves the loop and closes the channel Done returned.
DoneDrain(i) ==
    /\ sess[i].d = "run"
    /\ \/ /\ sess[i].q # <<>>
          /\ sess' = [sess EXCEPT ![i].q = Tail(@)]
       \/ /\ sess[i].q = <<>>
          /\ sess[i].closed
          /\ sess' = [sess EXCEPT ![i].d = "done"]
    /\ ev' = NoEv
    /\ UNCHANGED <<avars, xvars, bridge, dvars, tvars, mode, hubClosed,
                   wsCallback, chs>>

\* Receive: `return make(chan *Message)`, a new channel on every call, which
\* the adapter keeps no reference to: nothing sends on it or closes it,
\* whatever happens to the session.
ReceiveChannelClosed(s) == FALSE

\* A handler ranges over ch.Receive(): it stays in the loop until the
\* channel it was given is closed.
ChannelReceive(i) ==
    /\ mode = "loopback"
    /\ chs.pc = "idle"
    /\ Live(i)
    /\ HasHandler(sess[i].url)
    /\ ~ReceiveChannelClosed(sess[i])
    /\ chs' = [pc |-> "ranging", i |-> i]
    /\ ev' = NoEv
    /\ UNCHANGED <<avars, xvars, bridge, dvars, tvars, mode, sess, hubClosed, wsCallback>>

\* Hub.Close, as LoopbackTransport.Stop and mobile.Shutdown call it.
HubClose ==
    /\ sess' = HubCloseAll(sess)
    /\ hubClosed' = TRUE
    /\ ev' = NoEv
    /\ UNCHANGED <<avars, xvars, bridge, dvars, tvars, mode, wsCallback, chs>>

\* RegisterChannelHandler: the pattern and the handler go to Hub.Handle,
\* which puts them at the end of the handler table.
RegisterChannelHandler(pattern, h) ==
    /\ Len(table) < MaxHandlers
    /\ table' = Append(table, [p |-> pattern, h |-> h])
    /\ ev' = NoEv
    /\ UNCHANGED <<avars, xvars, bridge, tvars, hvars_but_ev, dflt>>

\* SetDefaultChannelHandler: Hub.SetDefaultHandler.
SetDefaultChannelHandler(h) ==
    /\ dflt' = h
    /\ ev' = NoEv
    /\ UNCHANGED <<avars, xvars, bridge, tvars, hvars_but_ev, table>>

\* ------------------------------------------- mobile bridge: the lifecycle
\* An Initialize that makes a new bridge whether one exists or not.
InitializeCreatesAlways(b) == TRUE

\* Initialize: `if globalBridge == nil`.
InitializeCreates(b) == ~b.up

\* Initialize: without a bridge it makes one, with websocket.NewHub(): an
\* open hub with no session and no handler (the sessions of an earlier hub
\* are in no registry any more); with a bridge it does nothing.
Initialize ==
    /\ mode = "mobile"
    /\ IF InitializeCreates(bridge)
       THEN /\ bridge' = NewBridge
            /\ sess' = [i \in Slots |-> [sess[i] EXCEPT !.reg = FALSE]]
            /\ hubClosed' = FALSE
            /\ table' = <<>>
            /\ dflt' = 0
       ELSE UNCHANGED <<bridge, sess, hubClosed, table, dflt>>
    /\ ev' = [op |-> "Initialize", i |-> 0, res |-> "nil"]
    /\ UNCHANGED <<avars, xvars, tvars, mode, wsCallback, chs>>

\* SetHandler: makes the bridge when there is none, then sets its adapter to
\* adapter.NewHTTPAdapter(handler).
SetHandler(h) ==
    /\ mode = "mobile"
    /\ IF ~bridge.up
       THEN /\ sess' = [i \in Slots |-> [sess[i] EXCEPT !.reg = FALSE]]
            /\ hubClosed' = FALSE
            /\ table' = <<>>
            /\ dflt' = 0
       ELSE UNCHANGED <<sess, hubClosed, table, dflt>>
    /\ bridge' = [up |-> TRUE, adapter |-> h]
    /\ ev' = [op |-> "SetHandler", i |-> h, res |-> "nil"]
    /\ UNCHANGED <<avars, xvars, tvars, mode, wsCallback, chs>>

\* Shutdown: with a bridge, wsHub.Close() and globalBridge = nil.
Shutdown ==
    /\ mode = "mobile"
    /\ IF bridge.up
       THEN /\ sess' = HubCloseAll(sess)
            /\ hubClosed' = TRUE
            /\ bridge' = NoBridge
       ELSE UNCHANGED <<bridge, sess, hubClosed>>
    /\ ev' = [op |-> "Shutdown", i |-> 0, res |-> "nil"]
    /\ UNCHANGED <<avars, xvars, dvars, tvars, mode, wsCallback, chs>>

\* mobile.HandleRequest: `if b == nil || b.adapter == nil` it answers
\* core.ErrorResponse(500, "Bridge not initialized"); otherwise the Response
\* is the one the adapter makes of the handler's run.
MobileHandleRequest ==
    /\ mode = "mobile"
    /\ ev' = [op |-> "mobile.HandleRequest", i |-> bridge.adapter,
              res |-> IF ~bridge.up \/ bridge.adapter = 0
                      THEN "500 Bridge not initialized"
                      ELSE "adapter.HandleRequest"]
    /\ UNCHANGED <<avars, xvars, bridge, dvars, tvars, hvars_but_ev>>

\* ------------------------------------ mobile bridge: Shutdown, step by step
\* bridgeMu is not write-locked: GetHub and HandleRequest get their RLock.
BridgeMuFree == sd.pc = "idle"

\* Shutdown: bridgeMu.Lock(), released by the deferred Unlock when Shutdown
\* returns; without a bridge it returns at once.
ShutdownBegin ==
    /\ mode = "mobile"
    /\ BridgeMuFree
    /\ IF bridge.up
       THEN /\ sd' = [pc |-> "closing", i |-> 0]
            /\ ev' = NoEv
       ELSE /\ sd' = sd
            /\ ev' = [op |-> "Shutdown", i |-> 0, res |-> "nil"]
    /\ UNCHANGED <<avars, xvars_but_sd, bridge, dvars, tvars, hvars_but_ev>>

\* wsHub.Close() under the lock, one session: the session is disconnected
\* and the close callback of its path's handler, when there is one, is
\* called on the goroutine of Shutdown.
ShutdownDisconnect(i) ==
    /\ sd.pc = "closing"
    /\ sess[i].reg
    /\ sess' = HubDisconnect(sess, sess[i].id)
    /\ sd' = IF HasHandler(sess[i].url) THEN [pc |-> "onclose", i |-> i]
                                       ELSE sd
    /\ ev' = NoEv
    /\ UNCHANGED <<avars, xvars_but_sd, bridge, dvars, tvars, mode, hubClosed,
                   wsCallback, chs>>

\* The handler's close callback: it returns, or it calls into the mobile
\* API (GetHub, WebSocketBroadcast, WebSocketSessionCount), whose first
\* statement is bridgeMu.RLock(): on a sync.RWMutex that is write-locked,
\* by whatever goroutine, RLock waits for the Unlock.
OnClose(callsBack) ==
    /\ sd.pc = "onclose"
    /\ sd' = IF callsBack THEN [sd EXCEPT !.pc = "rlock"]
                          ELSE [pc |-> "closing", i |-> 0]
    /\ ev' = NoEv
    /\ UNCHANGED <<avars, xvars_but_sd, bridge, dvars, tvars, hvars_but_ev>>

\* wsHub.Close() has returned: globalBridge = nil, and the deferred Unlock.
ShutdownEnd ==
    /\ sd.pc = "closing"
    /\ \A i \in Slots : ~sess[i].reg
    /\ hubClosed' = TRUE
    /\ bridge' = NoBridge
    /\ sd' = NoShutdown
    /\ ev' = [op |-> "Shutdown", i |-> 0, res |-> "nil"]
    /\ UNCHANGED <<avars, xvars_but_sd, dvars, tvars, mode, sess, wsCallback,
                   chs>>

\* What a handler's message callback gives: a reply envelope, nothing, or
\* an error.
Replies == {"envelope", "none", "error"}

Next ==
    \/ \E url \in Paths, accept \in BOOLEAN : Upgrade(url, accept)
    \/ \E i \in Slots : wsWriter(i)
    \/ \E i \in Slots, valid \in BOOLEAN, reply \in Replies :
          wsReaderMessage(i, valid, reply)
    \/ \E i \in Slots : wsReaderExit(i)
    \/ \E i \in Slots : ClientClose(i)
    \/ \E url \in Paths, accept \in BOOLEAN : WebSocketConnect(url, accept)
    \/ \E id \in IDs, valid \in BOOLEAN, reply \in Replies :
          WebSocketSend(id, valid, reply)
    \/ \E id \in IDs : WebSocketClose(id)
    \/ \E i \in Slots : forwardSessionMessages(i)
    \/ \E id \in IDs : WebSocketPoll(id)
    \/ \E pattern \in Paths : WebSocketBroadcast(pattern)
    \/ WebSocketBroadcastAll
    \/ \E id \in IDs : WebSocketSendToSession(id)
    \/ \E cb \in BOOLEAN : SetWebSocketCallback(cb)
    \/ \E i \in Slots : ChannelSendCheck(i)
    \/ ChannelSendEnqueue
    \/ \E i \in Slots : ChannelClose(i)
    \/ HubClose

\* ------------------------------------------- loopback transport: server
\* The goroutines that call Stop.
Callers == {1, 2}
\* Origins a request may carry ("none": no Origin header): the transport's
\* own http://address:port, one an application configures, a foreign one.
Own == "own"
Origins == {"none", Own, "app", "evil"}
\* What a request carries in X-Irgo-Secret and in the secret= query
\* parameter, against config.Secret.
SecretValues == {"none", "wrong", "right"}
\* A request: its path is protected or under an exempt prefix ("/static/",
\* "/api/"); it asks for the WebSocket upgrade or not.
Requests ==
    [origin : Origins, path : {"protected", "exempt"}, header : SecretValues,
     upgrade : BOOLEAN, query : SecretValues]

\* A chain built without the header validation.
ChainWithoutSecret == <<"cors", "origin", "wssecret", "upgrade", "business">>
\* A chain with the upgrade handler outside the upgrade validation.
ChainUpgradeFirst ==
    <<"cors", "origin", "secret", "upgrade", "wssecret", "business">>
\* A chain with the header validation outside the origin check.
ChainSecretFirst ==
    <<"cors", "secret", "origin", "wssecret", "upgrade", "business">>

\* Start's handler chain, outermost first: CORS, strict origin, secret
\* header, WebSocket secret, WebSocket upgrade, the business handler.
Chain == <<"cors", "origin", "secret", "wssecret", "upgrade", "business">>

\* What one link of the chain does with a request (specification 4.4; the
\* upgrade link is isWebSocketUpgrade): "pass" hands it to the next link.
Decide(link, r, origins) ==
    CASE link = "cors" -> "pass"
      [] link = "origin" ->
            IF r.origin # "none" /\ r.origin \notin origins
            THEN "deny" ELSE "pass"
      [] link = "secret" ->
            IF ~r.upgrade /\ r.path = "protected" /\ r.header # "right"
            THEN "deny" ELSE "pass"
      [] link = "wssecret" ->
            IF r.upgrade /\ r.query # "right" THEN "deny" ELSE "pass"
      [] link = "upgrade" -> IF r.upgrade THEN "upgrade" ELSE "pass"
      [] link = "business" -> "serve"

\* The request goes down the chain: the links it entered, and how it ended.
RECURSIVE RunChain(_, _, _)
RunChain(chain, r, origins) ==
    IF chain = <<>> THEN [trace |-> <<>>, out |-> "none"]
    ELSE LET d == Decide(Head(chain), r, origins)
             rest == RunChain(Tail(chain), r, origins)
         IN  IF d = "pass"
             THEN [trace |-> <<Head(chain)>> \o rest.trace, out |-> rest.out]
             ELSE [trace |-> <<Head(chain)>>, out |-> d]

\* The status the client gets: 403 from a refusing link, 101 for the
\* upgrade, the business handler's 200.
StatusOf(out) ==
    CASE out = "deny" -> 403
      [] out = "upgrade" -> 101
      [] out = "serve" -> 200
      [] OTHER -> 0

\* The configuration NewLoopbackTransport starts from: port 0 (Start finds
\* one), no secret (Start makes one).
NoSecret == [src |-> "none", n |-> 0]
DefaultConfig ==
    [address |-> "127.0.0.1", port |-> 0, secret |-> NoSecret, gens |-> 0]
\* The ports a caller configures, and those the probe listener is given.
ConfiguredPorts == {8080}
EphemeralPorts == {49152}

\* A Start that makes a new secret whatever the configuration holds.
NeedsSecretAlways(secret) == TRUE

\* Start: `if t.config.Secret == ""`.
NeedsSecret(secret) == secret = NoSecret

\* Start: `if t.config.Port == 0`, the port of the probe listener is kept;
\* generateSecret is called when the configuration holds no secret.
StartConfig(c, p) ==
    [c EXCEPT !.port = IF c.port = 0 THEN p ELSE c.port,
              !.secret = IF NeedsSecret(c.secret)
                         THEN [src |-> "generated", n |-> c.gens + 1]
                         ELSE c.secret,
              !.gens = IF NeedsSecret(c.secret) THEN c.gens + 1 ELSE c.gens]

\* The options of NewLoopbackTransport: a port, a secret.
WithPort(p) ==
    /\ server = "none"
    /\ cfg.port = 0
    /\ cfg' = [cfg EXCEPT !.port = p]
    /\ ev' = NoEv
    /\ UNCHANGED <<avars, xvars, bridge, dvars, hvars_but_ev,
                   running, server, listener, starts, closes, stp, inflight,
                   allowed>>

WithSecret ==
    /\ server = "none"
    /\ cfg.secret = NoSecret
    /\ cfg' = [cfg EXCEPT !.secret = [src |-> "supplied", n |-> 0]]
    /\ ev' = NoEv
    /\ UNCHANGED <<avars, xvars, bridge, dvars, hvars_but_ev,
                   running, server, listener, starts, closes, stp, inflight,
                   allowed>>

\* A Start that leaves the allow-list as configured.
StartOriginsAsConfigured(configured) == configured

\* Start: `if len(t.config.AllowedOrigins) == 0`, the own origin is the
\* allow-list.
StartOrigins(configured) == IF configured = {} THEN {Own} ELSE configured

\* An application configures its allow-list before Start.
WithAllowedOrigins(origins) ==
    /\ starts = 0
    /\ ~running
    /\ allowed = {}
    /\ allowed' = origins
    /\ ev' = NoEv
    /\ UNCHANGED <<avars, xvars, bridge, dvars, hvars_but_ev,
                   running, server, listener, starts, closes, stp, inflight,
                   cfg>>

\* Start: what it returns.  Nothing is wrong when running; net.Listen fails
\* when the port is held by the listener of an unfinished Stop, or by
\* another process.
StartError(bound) ==
    IF running THEN "nil"
    ELSE IF ~bound \/ listener = "open" THEN "error"
    ELSE "nil"

\* Start, under t.mu: nothing when running; else the configuration is
\* completed, a new t.server is made, and either net.Listen fails and Start
\* returns the error, or the new server serves the listener and the
\* transport is running.
StartSteps(bound) ==
    /\ starts < MaxStarts
    /\ IF running
       THEN UNCHANGED <<running, server, listener, starts, allowed, cfg>>
       ELSE /\ \E p \in EphemeralPorts : cfg' = StartConfig(cfg, p)
            /\ allowed' = StartOrigins(allowed)
            /\ IF StartError(bound) = "error"
               THEN /\ server' = "fresh"
                    /\ UNCHANGED <<running, listener, starts>>
               ELSE /\ server' = "serving"
                    /\ listener' = "open"
                    /\ starts' = starts + 1
                    /\ running' = TRUE
    /\ UNCHANGED <<avars, bridge, dvars, hvars_but_ev, closes, stp, inflight>>

Start(bound) ==
    /\ StartSteps(bound)
    /\ ev' = [op |-> "Start", i |-> 0, res |-> StartError(bound)]
    /\ UNCHANGED xvars

\* An App.Run that opens the webview whatever Start returned.
RunOpensWebviewAlways(err) == TRUE

\* App.Run: `if err := t.Start(); err != nil { return ... }` comes before
\* a.runWebview().
RunOpensWebview(err) == err = "nil"

\* The values of Config.Transport and of IRGO_TRANSPORT: unset, the two
\* the code names, and one it does not know.
TransportNames == {"", "loopback", "inprocess", "InProcess"}

\* An App.Run that does not look at IRGO_TRANSPORT.
SelectTransportOfConfig(config, env) ==
    IF config = "inprocess" THEN "inprocess" ELSE "loopback"

\* App.Run: transportType is a.config.Transport, or IRGO_TRANSPORT when
\* that is not empty; `case "inprocess"` makes the in-process transport and
\* `default` the loopback transport.
SelectTransport(config, env) ==
    LET transportType == IF env # "" THEN env ELSE config
    IN  IF transportType = "inprocess" THEN "inprocess" ELSE "loopback"

\* App.Run, up to the webview: it makes the transport, keeps it in
\* a.transport and starts it; with Start's error it returns the error
\* (wrapped), else it opens the webview, where it stays until the window is
\* closed.  The in-process transport has no listener: its Start binds
\* nothing and returns nil.
AppRun(bound) ==
    /\ server = "none"
    /\ app.transport = "none"
    /\ app' = [app EXCEPT !.transport = SelectTransport(app.config, app.env)]
    /\ IF SelectTransport(app.config, app.env) = "inprocess"
       THEN /\ ev' = [op |-> "Run", i |-> 0, res |-> "nil",
                      webview |-> RunOpensWebview("nil")]
            /\ UNCHANGED <<avars, bridge, dvars, tvars, hvars_but_ev>>
       ELSE /\ StartSteps(bound)
            /\ ev' = [op |-> "Run", i |-> 0, res |-> StartError(bound),
                      webview |-> RunOpensWebview(StartError(bound))]
    /\ UNCHANGED xvars_but_app

\* App.RegisterChannelHandler: `if a.transport != nil` it goes to the
\* transport's RegisterChannelHandler, which hands it to Hub.Handle; with
\* no transport yet the call does nothing.
AppRegisterChannelHandler(pattern, h) ==
    /\ Len(table) < MaxHandlers
    /\ table' = IF app.transport # "none"
                THEN Append(table, [p |-> pattern, h |-> h])
                ELSE table
    /\ ev' = [op |-> "App.RegisterChannelHandler", i |-> h, res |-> pattern]
    /\ UNCHANGED <<avars, xvars, bridge, tvars, hvars_but_ev, dflt>>

\* App.SetDefaultChannelHandler: the same test, then Hub.SetDefaultHandler.
AppSetDefaultChannelHandler(h) ==
    /\ dflt' = IF app.transport # "none" THEN h ELSE dflt
    /\ ev' = [op |-> "App.SetDefaultChannelHandler", i |-> h, res |-> "nil"]
    /\ UNCHANGED <<avars, xvars, bridge, tvars, hvars_but_ev, table>>

\* The server accepts a request (from the webview, or from any local
\* process).
ServeAccept ==
    /\ listener = "open"
    /\ inflight = 0
    /\ inflight' = 1
    /\ ev' = NoEv
    /\ UNCHANGED <<avars, xvars, bridge, dvars, hvars_but_ev,
                   running, server, listener, starts, closes, stp, allowed, cfg>>

\* The accepted request runs down the chain; an upgrade that gets to
\* wrapWithWebSocketHandler connects to the hub as Upgrade does.
ServeRun(r, url, accept) ==
    /\ inflight = 1
    /\ inflight' = 0
    /\ LET run == RunChain(Chain, r, allowed)
           err == ConnectError(FreshID, url, accept)
       IN  \* url and accept are the upgrade's: one choice stands for all
           \* when the request is no upgrade that gets there
           /\ run.out # "upgrade" => url = "/chat" /\ accept
           /\ run.out = "upgrade" => FreeSlots # {}
           /\ sess' = IF run.out = "upgrade" /\ UpgradeStarts(err)
                      THEN [sess EXCEPT
                              ![NextSlot] = UpgradedSession(FreshID, url, err)]
                      ELSE sess
           /\ ev' = [op |-> "Serve", i |-> 0, res |-> StatusOf(run.out),
                     req |-> r, trace |-> run.trace]
    /\ UNCHANGED <<avars, xvars, bridge, dvars, mode, hubClosed, wsCallback, chs,
                   running, server, listener, starts, closes, stp, allowed, cfg>>

\* A HandleRequest / OpenChannel that goes to the network whatever the
\* running flag says.
TransportClosedErrorNever(isRunning) == "nil"

\* HandleRequest and OpenChannel: `if !t.running`.
TransportClosedError(isRunning) ==
    IF ~isRunning THEN "ErrTransportClosed" ELSE "nil"

\* LoopbackTransport.HandleRequest: client.Do sends the request to the
\* listener.
TransportHandleRequest ==
    /\ inflight' = IF TransportClosedError(running) = "nil" THEN 1 ELSE inflight
    /\ ev' = [op |-> "HandleRequest", i |-> 0,
              res |-> TransportClosedError(running),
              net |-> (TransportClosedError(running) = "nil")]
    /\ UNCHANGED <<avars, xvars, bridge, dvars, hvars_but_ev,
                   running, server, listener, starts, closes, stp, allowed, cfg>>

\* LoopbackTransport.OpenChannel: the dialer sends the upgrade request.
OpenChannel ==
    /\ inflight' = IF TransportClosedError(running) = "nil" THEN 1 ELSE inflight
    /\ ev' = [op |-> "OpenChannel", i |-> 0,
              res |-> TransportClosedError(running),
              net |-> (TransportClosedError(running) = "nil")]
    /\ UNCHANGED <<avars, xvars, bridge, dvars, hvars_but_ev,
                   running, server, listener, starts, closes, stp, allowed, cfg>>

\* A Stop that goes on whatever the running flag says.
StopProceedsAlways(isRunning) == TRUE

\* Stop: `if !t.running { return nil }`.
StopProceeds(isRunning) == isRunning

\* Stop, under t.mu: the test of the running flag, which it clears.
StopBegin(c) ==
    /\ stp[c] = "idle"
    /\ IF StopProceeds(running)
       THEN /\ running' = FALSE
            /\ stp' = [stp EXCEPT ![c] = "shutdown"]
            /\ ev' = NoEv
       ELSE /\ ev' = [op |-> "Stop", i |-> c, res |-> "nil", ran |-> FALSE]
            /\ UNCHANGED <<running, stp>>
    /\ UNCHANGED <<avars, xvars, bridge, dvars, hvars_but_ev,
                   server, listener, starts, closes, inflight, allowed, cfg>>

\* Stop, outside t.mu: t.server.Shutdown(ctx). On the serving server it
\* closes the listener and waits for the requests being served; when ctx
\* expires first, Stop returns the error. On the fresh server that a Start
\* failing in the meantime has put in t.server, it has nothing to close.
StopShutdown(c) ==
    /\ stp[c] = "shutdown"
    /\ IF server = "serving"
       THEN /\ listener' = "closed"
            /\ closes' = closes + 1
            /\ IF inflight = 0
               THEN /\ stp' = [stp EXCEPT ![c] = "hubclose"]
                    /\ ev' = NoEv
               ELSE /\ stp' = [stp EXCEPT ![c] = "idle"]
                    /\ ev' = [op |-> "Stop", i |-> c, res |-> "timeout",
                              ran |-> TRUE]
       ELSE /\ stp' = [stp EXCEPT ![c] = "hubclose"]
            /\ ev' = NoEv
            /\ UNCHANGED <<listener, closes>>
    /\ UNCHANGED <<avars, xvars, bridge, dvars, hvars_but_ev,
                   running, server, starts, inflight, allowed, cfg>>

\* Stop: t.wsHub.Close().
StopHubClose(c) ==
    /\ stp[c] = "hubclose"
    /\ sess' = HubCloseAll(sess)
    /\ hubClosed' = TRUE
    /\ stp' = [stp EXCEPT ![c] = "wait"]
    /\ ev' = NoEv
    /\ UNCHANGED <<avars, xvars, bridge, dvars, mode, wsCallback, chs, tvars_but_stp>>

\* Stop: t.wg.Wait() returns once no Serve goroutine is left, and Stop
\* returns nil.
StopReturn(c) ==
    /\ stp[c] = "wait"
    /\ listener # "open"
    /\ stp' = [stp EXCEPT ![c] = "idle"]
    /\ ev' = [op |-> "Stop", i |-> c, res |-> "nil", ran |-> TRUE]
    /\ UNCHANGED <<avars, xvars, bridge, dvars, hvars_but_ev, tvars_but_stp>>

\* ------------------------------------------------------ specifications
\* The transport as NewLoopbackTransport leaves it: not running, no
\* listener, no origin configured.
TInit ==
    /\ running = FALSE
    /\ server = "none"
    /\ listener = "none"
    /\ starts = 0
    /\ closes = 0
    /\ stp = [c \in Callers |-> "idle"]
    /\ inflight = 0
    /\ allowed = {}
    /\ cfg = DefaultConfig

Init == AInit /\ HInit /\ TInit /\ XInit
Spec == Init /\ [][Next]_vars
SpecAdapter == Init /\ [][AdapterNext]_vars

\* The hub with its handler table filled while sessions exchange messages:
\* the dispatch of HandleMessage.
InitDispatch ==
    /\ AInit
    /\ XInit
    /\ bridge = NewBridge
    /\ table = <<>>
    /\ dflt = 0
    /\ mode \in Modes
    /\ sess = [i \in Slots |-> Free]
    /\ hubClosed = FALSE
    /\ wsCallback = FALSE
    /\ chs = Idle
    /\ ev = NoEv
    /\ TInit

NextDispatch ==
    \/ \E pattern \in Patterns, h \in Handlers :
          RegisterChannelHandler(pattern, h)
    \/ \E h \in Handlers : SetDefaultChannelHandler(h)
    \/ \E url \in Paths, accept \in BOOLEAN : Upgrade(url, accept)
    \/ \E url \in Paths, accept \in BOOLEAN : WebSocketConnect(url, accept)
    \/ \E i \in Slots, valid \in BOOLEAN, reply \in Replies :
          wsReaderMessage(i, valid, reply)
    \/ \E id \in IDs, valid \in BOOLEAN, reply \in Replies :
          WebSocketSend(id, valid, reply)

SpecDispatch == InitDispatch /\ [][NextDispatch]_vars

\* The mobile bridge with reconnection and shutdown.
InitReconnect == Init /\ mode = "mobile"

NextReconnect ==
    \/ \E url \in Paths, accept \in BOOLEAN : WebSocketConnect(url, accept)
    \/ \E id \in IDs, url \in Paths, accept \in BOOLEAN :
          WebSocketConnectWithID(id, url, accept)
    \/ \E id \in IDs, valid \in BOOLEAN, reply \in Replies :
          WebSocketSend(id, valid, reply)
    \/ \E id \in IDs : WebSocketClose(id)
    \/ \E i \in Slots : forwardSessionMessages(i)
    \/ \E id \in IDs : WebSocketSendToSession(id)
    \/ HubClose

SpecReconnect == InitReconnect /\ [][NextReconnect]_vars

\* The loopback transport: Start, the server and its handler chain, Stop.
InitTransport == Init /\ mode = "loopback"

NextTransport ==
    \/ \E origins \in {{"app"}} : WithAllowedOrigins(origins)
    \/ \E bound \in BOOLEAN : Start(bound)
    \/ ServeAccept
    \/ \E r \in Requests, url \in Paths, accept \in BOOLEAN :
          ServeRun(r, url, accept)
    \/ TransportHandleRequest
    \/ OpenChannel
    \/ \E c \in Callers : StopBegin(c)
    \/ \E c \in Callers : StopShutdown(c)
    \/ \E c \in Callers : StopHubClose(c)
    \/ \E c \in Callers : StopReturn(c)

SpecTransport == InitTransport /\ [][NextTransport]_vars

\* The loopback transport with the tasks of its sessions: upgrades that
\* carry the secret, the reader and the writer of each session, Stop.
UpgradeRequests ==
    {r \in Requests : /\ r.upgrade /\ r.query = "right" /\ r.origin = "none"
                      /\ r.path = "protected" /\ r.header = "none"}

InitTasks == Init /\ mode = "loopback"

NextTasks ==
    \/ \E bound \in BOOLEAN : Start(bound)
    \/ ServeAccept
    \/ \E r \in UpgradeRequests, url \in Paths, accept \in BOOLEAN :
          ServeRun(r, url, accept)
    \/ \E i \in Slots : wsWriter(i)
    \/ \E i \in Slots, valid \in BOOLEAN, reply \in Replies :
          wsReaderMessage(i, valid, reply)
    \/ \E i \in Slots : wsReaderExit(i)
    \/ \E i \in Slots : ClientClose(i)
    \/ \E c \in Callers : StopBegin(c)
    \/ \E c \in Callers : StopShutdown(c)
    \/ \E c \in Callers : StopHubClose(c)
    \/ \E c \in Callers : StopReturn(c)

SpecTasks == InitTasks /\ [][NextTasks]_vars

\* The loopback transport and its configuration: the options, Start, the
\* calls that use the configuration, Stop.
InitConfig == Init /\ mode = "loopback"

NextConfig ==
    \/ \E p \in ConfiguredPorts : WithPort(p)
    \/ WithSecret
    \/ \E origins \in {{"app"}} : WithAllowedOrigins(origins)
    \/ \E bound \in BOOLEAN : Start(bound)
    \/ \E bound \in BOOLEAN : AppRun(bound)
    \/ ServeAccept
    \/ TransportHandleRequest
    \/ OpenChannel
    \/ \E pattern \in Patterns, h \in Handlers :
          RegisterChannelHandler(pattern, h)
    \/ \E c \in Callers : StopBegin(c)
    \/ \E c \in Callers : StopShutdown(c)
    \/ \E c \in Callers : StopHubClose(c)
    \/ \E c \in Callers : StopReturn(c)

SpecConfig == InitConfig /\ [][NextConfig]_vars

\* --------------------------- LoopbackTransport.HandleRequest: the response
\* The header map the client gets from the server for what the handler
\* wrote: the map as it stood at the first WriteHeader or Write; the server
\* detects a Content-Type at the first Write of a response that has none
\* (the recorder does so only when that Write is also the implicit
\* WriteHeader), and it adds Date to every response.
ServerHeader(r) ==
    LET h == RecResultHeader(r)
        typed == IF r.body # <<>> /\ h["Content-Type"] = <<>>
                 THEN [h EXCEPT !["Content-Type"] = <<Sniffed>>]
                 ELSE h
    IN  [k \in {x \in HeaderKeys : Len(typed[x]) > 0} \cup {"Date"} |->
            IF k = "Date" THEN "now" ELSE typed[k][1]]

\* The core.Response LoopbackTransport.HandleRequest builds from the
\* *http.Response of client.Do, for a request the middleware lets through
\* (HandleRequest adds the secret header) whose handler wrote what the
\* recorder r holds: StatusCode, the first value of every header, the body.
LoopbackResponseOf(r) ==
    [status |-> r.code, headers |-> ServerHeader(r), body |-> r.body]

\* The loopback sessions and the handlers' calls on their channels.
NextChannel ==
    \/ \E url \in Paths, accept \in BOOLEAN : Upgrade(url, accept)
    \/ \E i \in Slots : wsWriter(i)
    \/ \E i \in Slots : wsReaderExit(i)
    \/ \E i \in Slots : ClientClose(i)
    \/ \E i \in Slots : ChannelSendCheck(i)
    \/ ChannelSendEnqueue
    \/ \E i \in Slots : ChannelClose(i)
    \/ \E i \in Slots : ChannelReceive(i)
    \/ \E i \in Slots : ChannelDone(i)
    \/ \E i \in Slots : DoneDrain(i)

SpecChannel == InitTasks /\ [][NextChannel]_vars

\* The mobile bridge from process start: no bridge until Initialize or
\* SetHandler; the native side calls the entry points in any order, and the
\* application registers its one channel handler on the hub of a bridge.
InitBridge ==
    /\ AInit
    /\ XInit
    /\ TInit
    /\ bridge = NoBridge
    /\ table = <<>>
    /\ dflt = 0
    /\ mode = "mobile"
    /\ sess = [i \in Slots |-> Free]
    /\ hubClosed = FALSE
    /\ wsCallback = FALSE
    /\ chs = Idle
    /\ ev = NoEv

NextBridge ==
    \/ Initialize
    \/ \E h \in Handlers : SetHandler(h)
    \/ Shutdown
    \/ MobileHandleRequest
    \/ \E url \in Paths, accept \in BOOLEAN : WebSocketConnect(url, accept)
    \/ \E id \in IDs, url \in Paths, accept \in BOOLEAN :
          WebSocketConnectWithID(id, url, accept)
    \/ \E id \in IDs, valid \in BOOLEAN, reply \in Replies :
          WebSocketSend(id, valid, reply)
    \/ \E id \in IDs : WebSocketClose(id)
    \/ \E id \in IDs : WebSocketSendToSession(id)
    \/ \E i \in Slots : forwardSessionMessages(i)
    \/ bridge.up /\ table = <<>> /\ RegisterChannelHandler("/chat", 1)

SpecBridge == InitBridge /\ [][NextBridge]_vars

\* The mobile bridge with its sessions, their forwarders, and a native side
\* that polls.
NextPoll ==
    \/ \E url \in Paths, accept \in BOOLEAN : WebSocketConnect(url, accept)
    \/ \E id \in IDs : WebSocketSendToSession(id)
    \/ \E id \in IDs : WebSocketClose(id)
    \/ \E i \in Slots : forwardSessionMessages(i)
    \/ \E id \in IDs : WebSocketPoll(id)
    \/ \E id \in IDs, timeoutMs \in Timeouts :
          WebSocketPollBlocking(id, timeoutMs)
    \/ PollBlockingReceive
    \/ Tick
    \/ \E cb \in BOOLEAN : SetWebSocketCallback(cb)

SpecPoll == InitReconnect /\ [][NextPoll]_vars

\* A desktop App from New to Run: the embedding application's
\* Config.Transport and the environment's IRGO_TRANSPORT are any of the
\* names; handlers are registered before and after Run, channels are opened
\* on the running transport and their messages dispatched.
InitApp ==
    /\ AInit
    /\ HInit
    /\ TInit
    /\ poll = NoPoll
    /\ sd = NoShutdown
    /\ vws = [k \in Sockets |-> NoSocket]
    /\ lr = NewServer
    /\ app \in [config : TransportNames, env : TransportNames,
                transport : {"none"}]
    /\ mode = "loopback"

NextApp ==
    \/ \E bound \in BOOLEAN : AppRun(bound)
    \/ \E pattern \in Paths, h \in Handlers :
          AppRegisterChannelHandler(pattern, h)
    \/ \E h \in Handlers : AppSetDefaultChannelHandler(h)
    \/ \E url \in Paths : running /\ Upgrade(url, TRUE)
    \/ \E i \in Slots, reply \in Replies : wsReaderMessage(i, TRUE, reply)

SpecApp == InitApp /\ [][NextApp]_vars

\* The mobile bridge with a Shutdown that is followed through its critical
\* section, next to the calls of the native side, which wait for bridgeMu.
NextShutdown ==
    \/ \E url \in Paths, accept \in BOOLEAN :
          BridgeMuFree /\ WebSocketConnect(url, accept)
    \/ \E id \in IDs : BridgeMuFree /\ WebSocketSendToSession(id)
    \/ BridgeMuFree /\ MobileHandleRequest
    \/ \E i \in Slots : forwardSessionMessages(i)
    \/ ShutdownBegin
    \/ \E i \in Slots : ShutdownDisconnect(i)
    \/ \E callsBack \in BOOLEAN : OnClose(callsBack)
    \/ ShutdownEnd

SpecShutdown == InitReconnect /\ [][NextShutdown]_vars

\* The channels of the loopback transport with their tasks scheduled fairly:
\* a reader whose connection is closed gets its read error, and a writer
\* with something to do (an envelope to write, a closed mailbox to leave)
\* does it.
SpecChannelFair ==
    /\ SpecChannel
    /\ \A i \in Slots : WF_vars(wsReaderExit(i)) /\ WF_vars(wsWriter(i))

\* The same with every forwarder scheduled fairly: a forwarder whose receive
\* is ready, with an envelope or with the closed mailbox, takes its turn.
SpecPollFair ==
    /\ SpecPoll
    /\ \A i \in Slots : WF_vars(forwardSessionMessages(i))

\* ======================================= irgo-bridge.js: VirtualWebSocket
\* Every function of the page runs to its end before another starts, so a
\* constructor, a close(), the continuation of an await and a callback from
\* the native side are one step each.
VwsFrame == <<avars, xvars_but_vws, bridge, dvars, tvars, hvars_but_ev>>

\* new VirtualWebSocket(url): readyState CONNECTING, then _connect() up to
\* its first await: natively NativeBridge.wsConnect is pending; on the
\* desktop the browser's WebSocket is made and its handlers are set.
VwsNew(k) ==
    /\ vws[k].rs = "NONE"
    /\ vws' = [vws EXCEPT ![k].rs = "CONNECTING",
                          ![k].conn = IF vws[k].nat THEN "pending" ELSE "none",
                          ![k].b = IF vws[k].nat THEN "none" ELSE "connecting"]
    /\ ev' = [op |-> "new", i |-> k, res |-> "CONNECTING"]
    /\ UNCHANGED VwsFrame

\* _connect after `await NativeBridge.wsConnect(...)`: the session id is
\* kept, the socket is put into _sessions, readyState = OPEN and "open" is
\* dispatched (resolved); or the catch: readyState = CLOSED and "error"
\* (rejected).  Neither looks at readyState first.
VwsConnected(k, resolved) ==
    /\ vws[k].conn = "pending"
    /\ vws' = IF resolved
              THEN [vws EXCEPT ![k].conn = "resolved", ![k].reg = TRUE,
                               ![k].rs = "OPEN"]
              ELSE [vws EXCEPT ![k].conn = "rejected", ![k].rs = "CLOSED"]
    /\ ev' = [op |-> IF resolved THEN "open" ELSE "error", i |-> k,
              res |-> vws'[k].rs]
    /\ UNCHANGED VwsFrame

\* close(): nothing when CLOSING or CLOSED; else readyState = CLOSING, and
\* with a browser socket its close() is called; without one wsClose is
\* sent, the session id is deleted from _sessions, readyState = CLOSED and
\* "close" is dispatched.
VwsClose(k) ==
    /\ vws[k].rs # "NONE"
    /\ IF vws[k].rs \in {"CLOSING", "CLOSED"}
       THEN /\ vws' = vws
            /\ ev' = NoEv
       ELSE IF vws[k].b # "none"
       THEN /\ vws' = [vws EXCEPT ![k].rs = "CLOSING", ![k].b = "closing"]
            /\ ev' = NoEv
       ELSE /\ vws' = [vws EXCEPT ![k].rs = "CLOSED", ![k].reg = FALSE,
                                  ![k].closeEv = TRUE]
            /\ ev' = [op |-> "close", i |-> k, res |-> "close()"]
    /\ UNCHANGED VwsFrame

\* window._irgo_ws_close(sessionId, ...), called by the native side for a
\* session it has made: a socket found in _sessions gets readyState =
\* CLOSED and "close", and is deleted from _sessions.
VwsNativeClose(k) ==
    /\ vws[k].conn = "resolved"
    /\ IF vws[k].reg
       THEN /\ vws' = [vws EXCEPT ![k].rs = "CLOSED", ![k].reg = FALSE,
                                  ![k].closeEv = TRUE]
            /\ ev' = [op |-> "close", i |-> k, res |-> "_irgo_ws_close"]
       ELSE /\ vws' = vws
            /\ ev' = NoEv
    /\ UNCHANGED VwsFrame

\* this._native.onopen: the browser's socket, while connecting, is
\* connected: readyState = OPEN and "open".
VwsBrowserOpen(k) ==
    /\ vws[k].b = "connecting"
    /\ vws' = [vws EXCEPT ![k].b = "open", ![k].rs = "OPEN"]
    /\ ev' = [op |-> "open", i |-> k, res |-> "OPEN"]
    /\ UNCHANGED VwsFrame

\* this._native.onclose: the browser's socket has failed to connect, was
\* closed by the peer, or has finished its close(): readyState = CLOSED and
\* "close".
VwsBrowserClose(k) ==
    /\ vws[k].b \in {"connecting", "open", "closing"}
    /\ vws' = [vws EXCEPT ![k].b = "closed", ![k].rs = "CLOSED",
                          ![k].closeEv = TRUE]
    /\ ev' = [op |-> "close", i |-> k, res |-> "onclose"]
    /\ UNCHANGED VwsFrame

\* A page of a mobile app (isNative) or of the desktop app, and its
\* sockets.
InitVws ==
    /\ AInit
    /\ HInit
    /\ TInit
    /\ poll = NoPoll
    /\ app = DefaultApp
    /\ sd = NoShutdown
    /\ lr = NewServer
    /\ \E isNative \in BOOLEAN :
          vws = [k \in Sockets |-> [NoSocket EXCEPT !.nat = isNative]]
    /\ mode = "mobile"

NextVws ==
    \/ \E k \in Sockets : VwsNew(k)
    \/ \E k \in Sockets, resolved \in BOOLEAN : VwsConnected(k, resolved)
    \/ \E k \in Sockets : VwsClose(k)
    \/ \E k \in Sockets : VwsNativeClose(k)
    \/ \E k \in Sockets : VwsBrowserOpen(k)
    \/ \E k \in Sockets : VwsBrowserClose(k)

SpecVws == InitVws /\ [][NextVws]_vars

\* ============================================================ livereload
LrFrame == <<avars, xvars_but_lr, bridge, dvars, tvars, hvars_but_ev>>

\* A writer that does not wait for s.mu.
WriterMayLockAlways == TRUE

\* s.mu.Lock() is granted: no NotifyReload holds the read lock.  (The
\* critical sections of the writers are one step each.)
WriterMayLock == \A k \in Notifiers : lr.n[k].pc = "idle"

\* Handler, a client connects: `clientChan := make(chan string, 1)` and,
\* under s.mu.Lock(), s.clients[clientChan] = struct{}{}.
LrConnect(c) ==
    /\ lr.ch[c].st = "none"
    /\ WriterMayLock
    /\ lr' = [lr EXCEPT !.clients = @ \cup {c}, !.ch[c].st = "connected"]
    /\ ev' = NoEv
    /\ UNCHANGED LrFrame

\* Handler, `case msg := <-clientChan`: the reload event is written to the
\* client.
LrReceive(c) ==
    /\ lr.ch[c].st = "connected"
    /\ lr.ch[c].buf = 1
    /\ lr' = [lr EXCEPT !.ch[c].buf = 0]
    /\ ev' = [op |-> "reload", i |-> c, res |-> "written"]
    /\ UNCHANGED LrFrame

\* Handler, `case <-r.Context().Done()`: the deferred function, under
\* s.mu.Lock(): delete(s.clients, clientChan), then close(clientChan).
LrDisconnect(c) ==
    /\ lr.ch[c].st = "connected"
    /\ WriterMayLock
    /\ lr' = [lr EXCEPT !.clients = @ \ {c}, !.ch[c].st = "gone",
                        !.ch[c].closed = TRUE]
    /\ ev' = NoEv
    /\ UNCHANGED LrFrame

\* NotifyReload: s.mu.RLock() and the start of `for ch := range s.clients`.
NotifyBegin(k) ==
    /\ lr.n[k].pc = "idle"
    /\ lr' = [lr EXCEPT !.n[k] = [pc |-> "ranging", todo |-> lr.clients]]
    /\ ev' = NoEv
    /\ UNCHANGED LrFrame

\* NotifyReload, one turn of the loop: `select { case ch <- "reload":
\* default: }`: the send goes through when the buffer has room, panics on a
\* closed channel, and otherwise the default case is taken.  After the last
\* client the deferred RUnlock runs and the call returns.
NotifyStep(k) ==
    /\ lr.n[k].pc = "ranging"
    /\ \/ /\ lr.n[k].todo = {}
          /\ lr' = [lr EXCEPT !.n[k].pc = "idle"]
          /\ ev' = [op |-> "NotifyReload", i |-> k, res |-> "returned"]
       \/ \E c \in lr.n[k].todo :
             LET res == IF lr.ch[c].closed THEN "panic"
                        ELSE IF lr.ch[c].buf = 1 THEN "skipped"
                        ELSE "sent"
             IN  /\ lr' = [lr EXCEPT !.n[k].todo = @ \ {c},
                                     !.ch[c].buf =
                                         IF res = "sent" THEN 1 ELSE @]
                 /\ ev' = [op |-> "notify", i |-> c, res |-> res]
    /\ UNCHANGED LrFrame

\* A livereload server, its SSE clients and the NotifyReload calls of the
\* file watcher.
InitLr ==
    /\ AInit
    /\ HInit
    /\ TInit
    /\ XInit
    /\ mode = "loopback"

NextLr ==
    \/ \E c \in Clients : LrConnect(c)
    \/ \E c \in Clients : LrReceive(c)
    \/ \E c \in Clients : LrDisconnect(c)
    \/ \E k \in Notifiers : NotifyBegin(k)
    \/ \E k \in Notifiers : NotifyStep(k)

SpecLr == InitLr /\ [][NextLr]_vars

\* ============================================================= claims
\* What the handler wrote, read off its log: the chunks of its Write calls,
\* and the status of its first WriteHeader or Write (200 without either).
RECURSIVE WrittenBody(_)
WrittenBody(log) ==
    IF log = <<>> THEN <<>>
    ELSE IF log[1].k = "write" THEN <<log[1].b>> \o WrittenBody(Tail(log))
    ELSE WrittenBody(Tail(log))

RECURSIVE WrittenStatus(_)
WrittenStatus(log) ==
    IF log = <<>> THEN 200
    ELSE IF log[1].k = "status" THEN log[1].c
    ELSE IF log[1].k = "write" THEN 200
    ELSE WrittenStatus(Tail(log))

HandlerPanicked == hlog # <<>> /\ hlog[Len(hlog)] = PanicOp

\* The Response carries the status, the first value of each header and the
\* whole body the handler wrote.
FaithfulResponse ==
    /\ resp.status = WrittenStatus(hlog)
    /\ resp.body = WrittenBody(hlog)
    /\ resp.headers = FlattenHeaders(RecResultHeader(rec))

\* C1: every Request handed to HTTPAdapter.HandleRequest has the handler
\* invoked exactly once and comes back as a Response with exactly the status,
\* the first value of each header and the complete body the handler wrote.
C1_HandlerOnceFaithfulResponse ==
    apc = "done" => calls = 1 /\ outcome = "returned" /\ FaithfulResponse

\* C2: a panic of the handler is caught at the adapter boundary and becomes
\* a Response of status 500; it never reaches the caller of HandleRequest.
C2_PanicBecomes500 ==
    HandlerPanicked => outcome = "returned" /\ resp.status = 500

\* What HandleRequest does give when the request line parses and the handler
\* returns: one invocation and the faithful Response.
ReturnedIsFaithful ==
    outcome = "returned" => calls = 1 /\ FaithfulResponse

\* ------------------------------------------------------ mailbox claims
\* The session object the last call was about, and the sessions beside it.
Full(s) == Len(s.q) = Capacity
HasRoom(s) == ~s.closed /\ Len(s.q) < Capacity
OthersUnchanged(id) ==
    \A j \in Slots : sess[j].id # id => sess'[j] = sess[j]

\* C3: the envelopes the writer path (wsWriter, forwardSessionMessages) hands
\* to a session's client arrive in the order they were enqueued: every
\* delivery is of the oldest envelope, every enqueue goes to the tail, and a
\* mailbox changes in no other way.
C3_WriterDeliversInEnqueueOrder ==
    [][ /\ ev'.op = "deliver" =>
              /\ sess[ev'.i].q # <<>>
              /\ ev'.res = Head(sess[ev'.i].q)
              /\ sess'[ev'.i].q = Tail(sess[ev'.i].q)
        /\ \A i \in Slots :
              \/ sess'[i].q = sess[i].q
              \/ sess[i].q # <<>> /\ sess'[i].q = Tail(sess[i].q)
              \/ \E e \in Envelopes : sess'[i].q = Append(sess[i].q, e)
      ]_vars

\* A delivery out of a full mailbox that held two different envelopes.
C3_Witness ==
    /\ ev.op = "deliver"
    /\ Len(sess[ev.i].q) = Capacity - 1
    /\ sess[ev.i].q[1] # ev.res

\* C4: a point-to-point send to a session whose mailbox is full returns at
\* once with the channel-full failure (ErrChannelFull from Channel.Send,
\* ChannelFull from Hub.Send), drops the envelope and leaves every mailbox
\* as it was.
C4_FullMailboxSendFails ==
    [][ /\ (ev'.op = "ChannelSend" /\ ~sess[ev'.i].closed /\ Full(sess[ev'.i]))
              => ev'.res = "ErrChannelFull" /\ sess' = sess
        /\ (ev'.op = "SendToSession" /\ Registered(sess, ev'.i)
              /\ HasRoom(sess[Lookup(sess, ev'.i)]) = FALSE)
              => ev'.res = "ChannelFull" /\ sess' = sess
      ]_vars

\* Channel.Send came back with ErrChannelFull from an open, full mailbox.
C4_Witness ==
    /\ ev.op = "ChannelSend"
    /\ ev.res = "ErrChannelFull"
    /\ ~sess[ev.i].closed
    /\ Full(sess[ev.i])

\* C5: a broadcast is one step that never waits: a target whose mailbox is
\* full is skipped, every other target with room gets the envelope at the
\* tail of its mailbox, and no session outside the targets changes.
C5_BroadcastSkipsFull ==
    [][ ev'.op = "Broadcast" =>
          \A i \in Slots :
             IF /\ sess[i].reg
                /\ ev'.res = "*" \/ Matches(ev'.res, sess[i].url)
                /\ HasRoom(sess[i])
             THEN sess'[i] = [sess[i] EXCEPT !.q = Append(sess[i].q, "bcast")]
             ELSE sess'[i] = sess[i]
      ]_vars

\* A broadcast to all passed over a full mailbox and reached an empty one.
C5_Witness ==
    /\ ev.op = "Broadcast"
    /\ ev.res = "*"
    /\ \E i, j \in Slots :
          /\ sess[i].reg /\ Full(sess[i]) /\ sess[i].q[Capacity] = "send"
          /\ sess[j].reg /\ sess[j].q = <<"bcast">>

\* C6: once a mailbox is closed it stays closed and nothing is enqueued to
\* it; a Channel.Send that meets the closed mailbox, before or after its
\* IsClosed test, returns an error and changes nothing.
C6_ClosedMailboxRejects ==
    [][ /\ \A i \in Slots :
              sess[i].closed =>
                  sess'[i].closed /\ Len(sess'[i].q) <= Len(sess[i].q)
        /\ (ev'.op = "ChannelSend" /\ sess[ev'.i].closed)
              => /\ ev'.res \in {"ErrChannelClosed", "ErrChannelFull"}
                 /\ sess' = sess
      ]_vars

\* A Channel.Send whose mailbox was closed between its IsClosed test and its
\* Session.Send: it failed although the mailbox had room.
C6_Witness ==
    /\ ev.op = "ChannelSend"
    /\ ev.res = "ErrChannelFull"
    /\ sess[ev.i].closed
    /\ Len(sess[ev.i].q) < Capacity

\* C7: every registered session has an open mailbox: a mailbox is closed
\* only together with or after the removal of its session from the registry,
\* also when a handler closes the session through Channel.Close.
C7_RegisteredHasOpenMailbox ==
    \A i \in Slots : sess[i].reg => ~sess[i].closed

\* C8: a Disconnect of an id the registry does not hold, a second close of a
\* mailbox and the reader task's Disconnect after an external close are
\* no-ops: nil is returned, the registry and the other sessions are as they
\* were.
C8_RepeatedCloseIsNoOp ==
    [][ /\ (ev'.op = "WebSocketClose" /\ ~Registered(sess, ev'.i))
              => ev'.res = "nil" /\ sess' = sess
        /\ (ev'.op = "wsReaderExit" /\ ~sess[ev'.i].reg)
              => /\ ev'.res = "nil"
                 /\ sess' = [sess EXCEPT ![ev'.i].r = "done"]
        /\ (ev'.op = "ChannelClose" /\ sess[ev'.i].closed)
              => ev'.res = "nil" /\ sess' = sess
        /\ ev'.op = "WebSocketClose" => OthersUnchanged(ev'.i)
        /\ ev'.op \in {"wsReaderExit", "ChannelClose"}
              => OthersUnchanged(sess[ev'.i].id)
        /\ ev'.op \in {"WebSocketClose", "wsReaderExit", "ChannelClose"}
              => hubClosed' = hubClosed
      ]_vars

\* The reader task ran its deferred Disconnect after Hub.Close had removed
\* its session.
C8_Witness ==
    /\ ev.op = "wsReaderExit"
    /\ hubClosed
    /\ sess[ev.i].r = "done"

\* C9: after Disconnect(id) a Send to id changes nothing and reports the
\* unknown session, and a broadcast passes the session over and still
\* reaches the registered sessions with room.
C9_DisconnectedIsSkipped ==
    [][ /\ (ev'.op = "SendToSession"
              /\ \E i \in Slots : sess[i].id = ev'.i /\ sess[i].closed)
              => /\ ev'.res \in {"UnknownSession", "HubClosed"}
                 /\ sess' = sess
        /\ ev'.op = "Broadcast" =>
              /\ \A i \in Slots : sess[i].closed => sess'[i] = sess[i]
              /\ ev'.res = "*" =>
                    \A j \in Slots :
                       sess[j].reg /\ HasRoom(sess[j])
                          => sess'[j].q = Append(sess[j].q, "bcast")
      ]_vars

\* A broadcast to all, with one session disconnected before it and another
\* that received it.
C9_Witness ==
    /\ ev.op = "Broadcast"
    /\ ev.res = "*"
    /\ \E i, j \in Slots :
          /\ Live(i) /\ ~sess[i].reg /\ sess[i].closed
          /\ sess[j].reg /\ sess[j].q = <<"bcast">>

\* C10: when Connect fails, as it does when the handler rejects the session
\* in its connect callback, no session is registered and no reader, writer
\* or forwarder is started; the loopback transport closes the upgraded
\* connection.  A session object comes to be only registered.
C10_RejectedNeverRegistered ==
    [][ /\ (ev'.op = "Upgrade" /\ ev'.res # "nil")
              => ev'.res = RejectedConn /\ sess' = sess
        /\ (ev'.op = "WebSocketConnect" /\ ev'.res # "nil") => sess' = sess
        /\ \A i \in Slots : (~Live(i) /\ sess'[i].kind # "none") => sess'[i].reg
      ]_vars

\* An upgrade the handler rejected: the hub is open and ids are fresh, so
\* the connect callback is what failed.
C10_Witness ==
    /\ ev.op = "Upgrade"
    /\ ev.res = RejectedConn
    /\ ~hubClosed
    /\ \E i \in Slots : Live(i)

\* ----------------------------------------------- registry and dispatch
\* C11: the registered ids are unique: Connect allocates an id that is not
\* registered, and ConnectWithID with a registered id returns
\* DuplicateSession, leaves every session and mailbox as it was and starts
\* no forwarder.
C11_RegisteredIdsUnique ==
    [][ /\ (ev'.op = "WebSocketConnectWithID" /\ Registered(sess, ev'.i))
              => ev'.res = "DuplicateSession" /\ sess' = sess
        /\ (ev'.op = "WebSocketConnect" /\ ev'.res = "nil")
              => ~Registered(sess, sess'[ev'.i].id)
        /\ \A i, j \in Slots :
              (i # j /\ sess'[i].reg /\ sess'[j].reg)
                  => sess'[i].id # sess'[j].id
      ]_vars

\* ConnectWithID was refused for an id that is registered.
C11_Witness ==
    /\ ev.op = "WebSocketConnectWithID"
    /\ ev.res = "DuplicateSession"
    /\ Registered(sess, ev.i)
    /\ FreeSlots # {}

\* The handler the table gives a path, said without the lookup: the entry
\* of least index whose pattern matches, else the default.
FirstMatch(url) ==
    LET M == {k \in 1..Len(table) : PatternMatches(table[k].p, url)}
    IN  IF M = {} THEN dflt
        ELSE table[CHOOSE k \in M : \A l \in M : k <= l].h

DispatchErrors == {"MalformedMessage", "UnknownSession", "NoHandler"}

\* C12: HandleMessage tests in this order: a message that does not parse
\* gives MalformedMessage, also for an unknown id; then an unregistered id
\* gives UnknownSession; then a path with neither a matching pattern nor a
\* default handler gives NoHandler; in each of these cases no handler
\* callback runs and no mailbox changes.
C12_HandleMessageChecksInOrder ==
    [][ ev'.op = "HandleMessage" =>
          /\ ~ev'.valid => ev'.res = "MalformedMessage"
          /\ (ev'.valid /\ ~Registered(sess, ev'.i))
                => ev'.res = "UnknownSession"
          /\ (ev'.valid /\ Registered(sess, ev'.i)
                /\ FirstMatch(sess[Lookup(sess, ev'.i)].url) = 0)
                => ev'.res = "NoHandler"
          /\ ev'.res \in DispatchErrors => ev'.h = 0 /\ sess' = sess
      ]_vars

\* A message that does not parse, sent for an id the registry does not hold.
C12_Witness ==
    /\ ev.op = "HandleMessage"
    /\ ~ev.valid
    /\ ~Registered(sess, ev.i)
    /\ ev.res = "MalformedMessage"

\* C13: the handler of a session is that of the first pattern, in
\* registration order, that matches the session's path; the default handler
\* is used only when no pattern matches.
C13_FirstMatchingPatternWins ==
    [][ (ev'.op = "HandleMessage" /\ ev'.valid /\ Registered(sess, ev'.i))
          => /\ ev'.h = FirstMatch(sess[Lookup(sess, ev'.i)].url)
             /\ ev'.h # 0 => ev'.res \in Replies
             /\ (\E k \in 1..Len(table) :
                    PatternMatches(table[k].p, sess[Lookup(sess, ev'.i)].url))
                   => \E k \in 1..Len(table) : ev'.h = table[k].h
      ]_vars

\* A message went to the handler of the first of two matching patterns.
C13_Witness ==
    /\ ev.op = "HandleMessage"
    /\ Len(table) = 2
    /\ table[1].h # table[2].h
    /\ Registered(sess, ev.i)
    /\ PatternMatches(table[1].p, sess[Lookup(sess, ev.i)].url)
    /\ PatternMatches(table[2].p, sess[Lookup(sess, ev.i)].url)
    /\ ev.h = table[1].h

\* C14: Hub.Close leaves no session registered and every mailbox closed;
\* on the closed hub Connect, ConnectWithID, HandleMessage and Send fail
\* with HubClosed and change no session.
C14_ClosedHubRefuses ==
    [][ /\ hubClosed' =>
              \A i \in Slots :
                 ~sess'[i].reg /\ (sess'[i].kind # "none" => sess'[i].closed)
        /\ (hubClosed /\ ev'.op \in {"WebSocketConnect", "WebSocketConnectWithID",
                                     "HandleMessage", "SendToSession"})
              => ev'.res = "HubClosed" /\ sess' = sess
        /\ hubClosed => hubClosed'
      ]_vars

\* ConnectWithID on the closed hub, after a session was disconnected by
\* Hub.Close.
C14_Witness ==
    /\ hubClosed
    /\ ev.op = "WebSocketConnectWithID"
    /\ ev.res = "HubClosed"
    /\ \E i \in Slots : Live(i) /\ sess[i].closed /\ ~sess[i].reg

\* C18: while the transport is not running (before the first Start, after a
\* Start that failed, after Stop), HandleRequest and OpenChannel return
\* ErrTransportClosed and send nothing to the network; a Start that fails
\* leaves the transport not running.
C18_NotRunningIsClosed ==
    [][ /\ (ev'.op \in {"HandleRequest", "OpenChannel"} /\ ~running)
              => /\ ev'.res = "ErrTransportClosed"
                 /\ ~ev'.net
                 /\ inflight' = inflight
        /\ (ev'.op = "Start" /\ ev'.res = "error" /\ ~running) => ~running'
      ]_vars

\* OpenChannel refused after a Stop of a started transport.
C18_Witness ==
    /\ ev.op = "OpenChannel"
    /\ ev.res = "ErrTransportClosed"
    /\ starts = 1
    /\ closes = 1
    /\ ~running

\* C19: a Stop that finds the transport not running returns nil and
\* changes nothing (no shutdown, no hub close); the listener is closed only
\* while open, once for each successful Start, and is closed when a Stop
\* that found the transport running returns.
C19_StopIsIdempotent ==
    [][ /\ (ev'.op = "Stop" /\ ~ev'.ran)
              => /\ ev'.res = "nil"
                 /\ UNCHANGED <<sess, hubClosed, listener, closes, running, stp>>
        /\ closes' # closes
              => listener = "open" /\ listener' = "closed"
                                   /\ closes' = closes + 1
        /\ closes' = IF listener' = "open" THEN starts' - 1 ELSE starts'
        /\ (ev'.op = "Stop" /\ ev'.ran)
              => listener' = "closed" /\ closes' = starts'
      ]_vars

\* A second Stop after the first one shut the server down and closed the
\* hub.
C19_Witness ==
    /\ ev.op = "Stop"
    /\ ~ev.ran
    /\ closes = 1
    /\ hubClosed
    /\ \A c \in Callers : stp[c] = "idle"

\* The link was entered by the request whose trace this is.
Entered(link, trace) == \E k \in 1..Len(trace) : trace[k] = link

\* The request's origin passes the origin check.
OriginPasses(r) == r.origin = "none" \/ r.origin \in allowed

C16_UpgradeNeedsSecret ==
    [][ (ev'.op = "Serve" /\ ev'.req.upgrade /\ ev'.req.query # "right") =>
          /\ ~Entered("upgrade", ev'.trace)
          /\ ev'.res = 403
          /\ sess' = sess
      ]_vars

\* An upgrade request without the parameter is refused while the hub is
\* open and has room for the session.
C16_Witness ==
    /\ ev.op = "Serve"
    /\ ev.req.upgrade
    /\ ev.req.query = "none"
    /\ ev.req.origin = "none"
    /\ ev.trace = <<"cors", "origin", "secret", "wssecret">>
    /\ ~hubClosed
    /\ FreeSlots # {}

\* C17: a request with an Origin outside the allow-list is answered 403
\* before the secret checks and the business handler; a request without
\* Origin goes on to the secret check; a Start with no origin configured
\* makes the allow-list the own origin alone, and keeps a configured one.
C17_OriginCheckedFirst ==
    [][ /\ (ev'.op = "Serve" /\ ev'.req.origin # "none"
               /\ ev'.req.origin \notin allowed)
              => /\ ev'.res = 403
                 /\ ev'.trace = <<"cors", "origin">>
        /\ (ev'.op = "Serve" /\ ev'.req.origin = "none")
              => Entered("secret", ev'.trace)
        /\ (ev'.op = "Start" /\ ~running)
              => allowed' = IF allowed = {} THEN {Own} ELSE allowed
      ]_vars

\* With no origin configured, a request from a foreign origin that carries
\* the exact secret is refused by the origin check.
C17_Witness ==
    /\ ev.op = "Serve"
    /\ allowed = {Own}
    /\ ev.req.origin = "evil"
    /\ ev.req.header = "right"
    /\ ev.res = 403
    /\ ev.trace = <<"cors", "origin">>

\* No session is registered in the hub and every mailbox is closed.
NoSessionLeft ==
    \A i \in Slots : ~sess[i].reg /\ (Live(i) => sess[i].closed)

\* A Stop has shut the server down, and every Stop called has returned.
StopHasReturned == closes > 0 /\ \A c \in Callers : stp[c] = "idle"

\* C20: once a Stop that shut the server down has returned, with nil or
\* with the error of its expired context, no session is registered and
\* every mailbox is closed, whatever upgrade came during or after it.
C20_StopLeavesNoSession == StopHasReturned => NoSessionLeft

\* ------------------------------------------------ transport task claims
\* The reader and the writer of every upgraded session have finished.
TasksFinished ==
    \A i \in Slots :
       sess[i].kind = "loopback" => sess[i].w = "done" /\ sess[i].r = "done"

\* C21: when a Stop that found the transport running returns, the reader
\* and the writer of every session the transport upgraded have finished.
C21_StopWaitsForTasks == (ev.op = "Stop" /\ ev.ran) => TasksFinished

\* C22: once a Start has succeeded, no step changes the configuration
\* (address, port, secret, allowed origins); generateSecret is called at
\* most once, and a secret the caller supplied is never replaced.
C22_ConfigFixedAfterStart ==
    [][ /\ starts >= 1 => cfg' = cfg /\ allowed' = allowed
        /\ cfg'.gens <= 1
        /\ cfg.secret.src = "supplied" => cfg'.secret = cfg.secret
      ]_vars

\* A second successful Start, after a Stop, of a transport that was given
\* neither port nor secret: it runs with the port and the secret of the
\* first.
C22_Witness ==
    /\ ev.op = "Start"
    /\ ev.res = "nil"
    /\ starts = 2
    /\ closes = 1
    /\ cfg.port \in EphemeralPorts
    /\ cfg.secret = [src |-> "generated", n |-> 1]

\* C23: a Start (on its own or in App.Run) of a transport that is not
\* running returns nil only when it has bound the listener; when it returns
\* an error the transport stays not running, no listener is served, later
\* HandleRequest and OpenChannel return ErrTransportClosed, and App.Run
\* returns the error without opening the webview.
C23_FailedStartIsNotRunning ==
    [][ /\ (ev'.op \in {"Start", "Run"} /\ ~running /\ ev'.res = "nil")
              => listener # "open" /\ listener' = "open" /\ running'
        /\ (ev'.op \in {"Start", "Run"} /\ ev'.res = "error")
              => /\ ~running'
                 /\ listener' = listener
                 /\ starts' = starts
                 /\ TransportClosedError(running') = "ErrTransportClosed"
        /\ (ev'.op = "Run" /\ ev'.res = "error") => ~ev'.webview
        /\ (ev'.op \in {"HandleRequest", "OpenChannel"}
               /\ server = "fresh" /\ ~running)
              => ev'.res = "ErrTransportClosed" /\ ~ev'.net
      ]_vars

\* App.Run returned the error of a Start that could not bind the port.
C23_Witness ==
    /\ ev.op = "Run"
    /\ ev.res = "error"
    /\ ~ev.webview
    /\ ~running
    /\ listener = "none"
    /\ starts = 0

\* ------------------------------------------------ transparency claims
\* C24: the Response the virtual HTTP adapter returns for a handler run is
\* the one LoopbackTransport.HandleRequest returns for the same run: same
\* status, same header map, same body.
C24_TransportsAgree ==
    (apc = "done" /\ outcome = "returned") => resp = LoopbackResponseOf(rec)

\* ------------------------------------------------------ delivery claims
\* C25: when HandleMessage gives the reply envelope of a handler for a
\* message of a session, on the loopback path or on the mobile path, the
\* envelope is put at the end of that session's mailbox (from where the
\* session's writer task delivers it).
C25_ReplyIsEnqueued ==
    [][ (ev'.op = "HandleMessage" /\ ev'.res = "envelope")
          => \E i \in Slots : /\ sess[i].reg
                              /\ sess[i].id = ev'.i
                              /\ sess'[i].q = Append(sess[i].q, "reply")
      ]_vars

\* C26: an envelope leaves the mailbox of a session that is open (and, on
\* the loopback path, whose connection is up) only by being handed to the
\* client: the oldest envelope, written to the socket by wsWriter, passed
\* to the native callback by the forwarder, or returned by WebSocketPoll.
C26_TakenEnvelopeIsHandedOver ==
    [][ \A i \in Slots :
          (/\ ~sess[i].closed /\ ~sess'[i].closed
           /\ sess[i].kind = "loopback" => sess[i].conn = "open"
           /\ sess[i].q # <<>>
           /\ sess'[i].q = Tail(sess[i].q))
          => /\ ev'.op \in {"deliver", "poll"}
             /\ ev'.i = i
             /\ ev'.res = Head(sess[i].q)
      ]_vars

\* ------------------------------------------------------- channel claims
\* C27: a Channel.Send that ends while the channel is closed returns
\* ErrChannelClosed, and one that returns ErrChannelFull found the channel
\* open and its buffer full, whatever Close or Disconnect ran meanwhile.
C27_SendTellsClosedFromFull ==
    [][ ev'.op = "ChannelSend" =>
          /\ sess[ev'.i].closed => ev'.res = "ErrChannelClosed"
          /\ ev'.res = "ErrChannelFull"
                => ~sess[ev'.i].closed /\ Full(sess[ev'.i])
      ]_vars

\* C28: once Channel.Close has been called on a session's channel, or the
\* session's connection has terminated, the channel a consumer got from
\* Receive() is closed (so its range loop ends).
C28_ReceiveClosesWithChannel ==
    (/\ chs.pc = "ranging"
     /\ sess[chs.i].closed \/ sess[chs.i].conn = "closed")
    => ReceiveChannelClosed(sess[chs.i])

\* C29: a mobile entry point invoked while there is no bridge fails cleanly,
\* in every order of Initialize, SetHandler and Shutdown: WebSocketConnect,
\* WebSocketConnectWithID, WebSocketSend, WebSocketClose and
\* WebSocketSendToSession return "bridge not initialized" and touch nothing;
\* HandleRequest answers the 500 Response when there is no bridge or the
\* bridge has no handler.
HubEntryPoints ==
    {"WebSocketConnect", "WebSocketConnectWithID", "WebSocketSend",
     "HandleMessage", "WebSocketClose", "WebSocketSendToSession",
     "SendToSession"}

C29_NoBridgeFailsCleanly ==
    [][/\ (~bridge.up /\ ev'.op \in HubEntryPoints)
          => /\ ev'.res = "bridge not initialized"
             /\ UNCHANGED <<bridge, sess, hubClosed, table, dflt>>
       /\ ((~bridge.up \/ bridge.adapter = 0)
           /\ ev'.op = "mobile.HandleRequest")
          => /\ ev'.res = "500 Bridge not initialized"
             /\ UNCHANGED <<bridge, sess, hubClosed, table, dflt>>]_vars

\* WebSocketSend was refused after a Shutdown took the bridge away.
C29_Witness ==
    /\ ~bridge.up
    /\ hubClosed
    /\ ev.op = "WebSocketSend"
    /\ ev.res = "bridge not initialized"

\* C30: mobile.Initialize is idempotent: called while a bridge exists it
\* changes nothing (the bridge and its adapter, the hub with its sessions
\* and its handlers stay as they are); SetHandler called while a bridge
\* exists keeps the hub and replaces only the adapter.
C30_InitializeIsIdempotent ==
    [][/\ (bridge.up /\ ev'.op = "Initialize")
          => UNCHANGED <<bridge, sess, hubClosed, table, dflt>>
       /\ (bridge.up /\ ev'.op = "SetHandler")
          => /\ bridge' = [bridge EXCEPT !.adapter = ev'.i]
             /\ UNCHANGED <<sess, hubClosed, table, dflt>>]_vars

\* Initialize was called on a bridge that has an adapter, a registered
\* session and a channel handler.
C30_Witness ==
    /\ ev.op = "Initialize"
    /\ bridge.up
    /\ bridge.adapter # 0
    /\ table # <<>>
    /\ \E i \in Slots : sess[i].reg

\* C31: WebSocketPollBlocking called with timeoutMs > 0 does not stay in its
\* receive beyond the timeout: a call still waiting has waited no longer
\* than timeoutMs.
C31_PollBlockingTimesOut ==
    poll.pc = "blocked" => poll.elapsed <= poll.timeout

\* C32: with no native callback registered, an envelope in the mailbox of an
\* open mobile session stays there until a poll for the session returns it:
\* every step that takes one out is a WebSocketPoll or WebSocketPollBlocking
\* of that session returning it.
C32_UnpolledEnvelopeStays ==
    [][\A i \in Slots :
          (/\ sess[i].kind = "mobile"
           /\ ~wsCallback
           /\ ~sess[i].cb
           /\ ~sess[i].closed /\ ~sess'[i].closed
           /\ Len(sess'[i].q) < Len(sess[i].q))
          => /\ ev'.op = "poll"
             /\ ev'.i = i
             /\ ev'.res = Receive(sess[i].q)]_vars

\* C33: App.Run selects the transport from Config.Transport, overridden by
\* IRGO_TRANSPORT whenever that is not empty: the effective value
\* "inprocess" selects the in-process transport, every other effective
\* value (empty and unknown included) the loopback transport.
C33_RunSelectsTransport ==
    [][ev'.op = "Run" =>
          LET effective == IF app.env # "" THEN app.env ELSE app.config
          IN  /\ effective = "inprocess" => app'.transport = "inprocess"
              /\ effective # "inprocess" => app'.transport = "loopback"]_vars

\* Run made the in-process transport because the environment said so, over
\* a configuration that names the loopback transport.
C33_Witness ==
    /\ ev.op = "Run"
    /\ app.config = "loopback"
    /\ app.env = "inprocess"
    /\ app.transport = "inprocess"

\* C38: a handler registered through App.RegisterChannelHandler or
\* App.SetDefaultChannelHandler is the handler of the channels opened
\* afterwards on a matching path, before App.Run has made the transport as
\* well as after: once the call has returned, a path that had no handler
\* resolves to the registered one, and the default handler is the one set.
C38_AppRegistrationTakesEffect ==
    [][/\ (/\ ev'.op = "App.RegisterChannelHandler"
           /\ Resolve(table, dflt, ev'.res) = 0)
          => Resolve(table', dflt', ev'.res) = ev'.i
       /\ ev'.op = "App.SetDefaultChannelHandler" => dflt' = ev'.i]_vars

\* C34: Done() on a hub-backed Channel has no effect on delivery: the call
\* leaves the session's mailbox as it is, while the connection is open every
\* envelope taken out of the mailbox afterwards is the one the writer
\* delivers, and the channel Done returned is closed only once the session
\* is closed.
C34_DoneLeavesMailbox ==
    [][\A i \in Slots :
          /\ (ev'.op = "ChannelDone" /\ ev'.i = i) => sess'[i].q = sess[i].q
          /\ (/\ sess[i].d = "run"
              /\ sess[i].conn = "open"
              /\ Len(sess'[i].q) < Len(sess[i].q))
             => (ev'.op = "deliver" /\ ev'.i = i)
          /\ (sess[i].d = "run" /\ sess'[i].d = "done") => sess[i].closed
      ]_vars

\* C35: mobile.Shutdown always terminates, also when a handler's close
\* callback that runs during Hub.Close calls back into the mobile API and
\* when it runs next to HandleRequest or WebSocket* calls: a Shutdown that
\* has begun always has a next step it can take.
ShutdownStep ==
    \/ \E i \in Slots : ShutdownDisconnect(i)
    \/ \E callsBack \in BOOLEAN : OnClose(callsBack)
    \/ ShutdownEnd

C35_ShutdownCanProceed ==
    sd.pc # "idle" => ENABLED ShutdownStep

\* C36: for every session of a loopback channel upgrade, once its connection
\* has failed or is closed, the session is eventually out of the hub's
\* registry with its mailbox closed and both its reader and its writer
\* task finished.
C36_ClosedConnectionEndsSession ==
    \A i \in Slots :
        (sess[i].kind = "loopback" /\ sess[i].conn = "closed")
        ~> (/\ ~sess[i].reg
            /\ sess[i].closed
            /\ sess[i].w = "done"
            /\ sess[i].r = "done")

\* The reader of a closed connection has just left, after the writer: the
\* session is unregistered, its mailbox closed and both tasks are finished.
C36_Witness ==
    /\ ev.op = "wsReaderExit"
    /\ sess[ev.i].conn = "closed"
    /\ ~sess[ev.i].reg
    /\ sess[ev.i].closed
    /\ sess[ev.i].w = "done"
    /\ sess[ev.i].r = "done"

\* C37: for each mobile session whose forwarder was started while a native
\* callback was registered, the callback receives OnClose exactly once, only
\* after the session's mailbox has been closed, and no OnMessage for the
\* session after its OnClose: OnClose is given in the step that ends the
\* forwarder, on the closed and drained mailbox; the forwarder of such a
\* session ends in no other way; an ended forwarder stays ended and gives
\* nothing more; and once the mailbox is closed the forwarder does end.
C37_OnCloseOnceAndLast ==
    /\ [][\A i \in Slots :
             /\ (ev'.op = "OnClose" /\ ev'.i = i)
                => /\ sess[i].cb
                   /\ sess[i].closed /\ sess[i].q = <<>>
                   /\ sess[i].w = "run" /\ sess'[i].w = "done"
             /\ (sess[i].cb /\ sess[i].w = "run" /\ sess'[i].w = "done")
                => (ev'.op = "OnClose" /\ ev'.i = i)
             /\ (sess[i].kind = "mobile" /\ sess[i].w = "done")
                => /\ sess'[i].w = "done"
                   /\ ~(ev'.op \in {"deliver", "OnClose"} /\ ev'.i = i)
         ]_vars
    /\ \A i \in Slots :
          (sess[i].kind = "mobile" /\ sess[i].cb /\ sess[i].closed)
          ~> (sess[i].w = "done")

\* The callback has just received the OnClose of a session that was closed
\* by WebSocketClose.
C37_Witness ==
    /\ ev.op = "OnClose"
    /\ sess[ev.i].cb
    /\ sess[ev.i].closed
    /\ sess[ev.i].w = "done"

\* C39: a VirtualWebSocket's readyState only moves forward (CONNECTING,
\* OPEN, CLOSING, CLOSED) and no "open" event is dispatched after a "close"
\* event, also when close() is called while the native connect is pending
\* and when a native close callback follows a local close().
ReadyStateRank(rs) ==
    CASE rs = "NONE" -> 0
      [] rs = "CONNECTING" -> 1
      [] rs = "OPEN" -> 2
      [] rs = "CLOSING" -> 3
      [] rs = "CLOSED" -> 4

C39_ReadyStateMovesForward ==
    [][\A k \in Sockets :
          /\ ReadyStateRank(vws'[k].rs) >= ReadyStateRank(vws[k].rs)
          /\ ~(vws[k].closeEv /\ ev'.op = "open" /\ ev'.i = k)]_vars

\* C40: NotifyReload never blocks and never sends on a closed client
\* channel, in every interleaving with clients connecting and
\* disconnecting: each of its sends either goes through or is skipped, it
\* is skipped exactly when the client's one-slot channel is full (which
\* then holds the one pending signal), and no channel in the client set is
\* closed.
C40_NotifyReloadIsSafe ==
    [][/\ ev'.op = "notify"
          => /\ ev'.res \in {"sent", "skipped"}
             /\ (ev'.res = "skipped") <=> (lr.ch[ev'.i].buf = 1)
             /\ lr'.ch[ev'.i].buf = 1
       /\ \A c \in lr'.clients : ~lr'.ch[c].closed]_vars

\* A NotifyReload skipped a client whose channel still held the signal of
\* an earlier one, after another client had disconnected and its channel
\* was closed.
C40_Witness ==
    /\ ev.op = "notify"
    /\ ev.res = "skipped"
    /\ \E c \in Clients : lr.ch[c].closed

====
